---- MODULE Spec2Model ----
(***************************************************************************)
(* Model of the EPIVIZ 4.1 resolution and fallback engine (src/new_api):   *)
(*   - DataAccessManager   (data/access/manager.py)                        *)
(*   - Raw/Enhanced adapters' derivation step (data/adapters/*.py)         *)
(*   - ModelRegistry       (models/loaders/registry.py)                    *)
(*   - COVIDPredictor      (models/predictors/covid_predictor.py)          *)
(* Each component has its own specification over the shared variables.     *)
(***************************************************************************)
EXTENDS Integers, Sequences, FiniteSets, TLC

VARIABLES
    adapters,       \* DataAccessManager.adapters: the priority-ordered list
    dataRes,        \* observation of the last DataAccessManager.get_data call
    registry,       \* ModelRegistry.registry: country -> kind -> location
    loaded_models,  \* ModelRegistry.loaded_models: country -> kind -> artifact
    model_metadata, \* ModelRegistry.model_metadata: country -> kind -> metadata
    regRes,         \* observation of the last ModelRegistry call
    watch,          \* history: one successful get_model since the last clear_cache
    threads,        \* the get_model calls in progress: position and locals of each
    stored,         \* the table on disk, as an adapter's storage holds it
    loadRes,        \* observation of the last adapter load_data call
    predRes         \* observation of the last COVIDPredictor.predict call

dataVars == <<adapters, dataRes>>

regVars == <<registry, loaded_models, model_metadata, regRes, watch, threads>>

loadVars == <<stored, loadRes>>

vars == <<adapters, dataRes, registry, loaded_models, model_metadata, regRes,
          watch, threads, stored, loadRes, predRes>>

(***************************************************************************)
(* Bounds                                                                  *)
(***************************************************************************)
MaxAdapters == 3
MaxEntries == 2     \* artifacts on disk, over all countries
MaxRows == 3        \* rows of a stored table
MaxDays == 2        \* days of a forecast

(***************************************************************************)
(* DataAccessManager                                                       *)
(***************************************************************************)
EnhancedPriority == 100
RawPriority == 80

\* priorities a caller of register_adapter may give (below, between, equal to
\* and above the built-in ones)
Priorities == {50, RawPriority, 90, EnhancedPriority, 120}

Adapter(id, name, priority) == [id |-> id, name |-> name, priority |-> priority]

\* list.insert of x after every element whose key is >= x's key: one step of
\* a stable sort in descending priority order
RECURSIVE InsertDesc(_, _)
InsertDesc(s, x) ==
    IF s = <<>> THEN <<x>>
    ELSE IF Head(s).priority >= x.priority
         THEN <<Head(s)>> \o InsertDesc(Tail(s), x)
         ELSE <<x>> \o s

RECURSIVE SortDescFrom(_, _)
SortDescFrom(s, acc) ==
    IF s = <<>> THEN acc ELSE SortDescFrom(Tail(s), InsertDesc(acc, Head(s)))

\* mutant: the list is left in registration order
SortAdaptersUnsorted(s) == s

\* self.adapters.sort(key=lambda a: a.priority, reverse=True): stable
SortAdapters(s) == SortDescFrom(s, <<>>)

\* __init__ + _initialize_adapters
InitialAdapters ==
    SortAdapters(<<Adapter(1, "enhanced_data", EnhancedPriority),
                   Adapter(2, "raw_data", RawPriority)>>)

AdapterIds(ads) == {ads[i].id : i \in 1..Len(ads)}

\* mutant: load_data is attempted whatever can_handle answered
ShouldTryAlways(a, canH) == TRUE

\* if adapter.can_handle(context):
ShouldTry(a, canH) == canH[a.id]

\* mutant: the failure is swallowed without being recorded
RecordErrorDropped(errors, a) == errors

\* errors.append(error_msg)
RecordError(errors, a) == Append(errors, a.id)

\* mutant: a successful load does not end the loop; the last success wins
RECURSIVE GetDataLoopNoReturn(_, _, _, _, _, _, _)
GetDataLoopNoReturn(ads, i, canH, loadOk, errors, calls, found) ==
    IF i > Len(ads)
    THEN IF found # 0
         THEN [outcome |-> "ok", source |-> found, details |-> <<>>, calls |-> calls]
         ELSE [outcome |-> "DataNotFoundError", source |-> 0,
               details |-> errors, calls |-> calls]
    ELSE LET a == ads[i]
             c1 == Append(calls, <<"can_handle", a.id>>)
             c2 == Append(c1, <<"load_data", a.id>>)
         IN  IF canH[a.id]
             THEN IF loadOk[a.id]
                  THEN GetDataLoopNoReturn(ads, i + 1, canH, loadOk, errors, c2, a.id)
                  ELSE GetDataLoopNoReturn(ads, i + 1, canH, loadOk,
                                           Append(errors, a.id), c2, found)
             ELSE GetDataLoopNoReturn(ads, i + 1, canH, loadOk, errors, c1, found)

\* mutant: a failed load_data is tried a second time before moving on
RECURSIVE GetDataLoopRetrying(_, _, _, _, _, _, _)
GetDataLoopRetrying(ads, i, canH, loadOk, errors, calls, found) ==
    IF i > Len(ads)
    THEN [outcome |-> "DataNotFoundError", source |-> 0,
          details |-> errors, calls |-> calls]
    ELSE LET a == ads[i]
             c1 == Append(calls, <<"can_handle", a.id>>)
             c2 == Append(c1, <<"load_data", a.id>>)
         IN  IF canH[a.id]
             THEN IF loadOk[a.id]
                  THEN [outcome |-> "ok", source |-> a.id,
                        details |-> <<>>, calls |-> c2]
                  ELSE GetDataLoopRetrying(ads, i + 1, canH, loadOk,
                                           Append(errors, a.id),
                                           Append(c2, <<"load_data", a.id>>), found)
             ELSE GetDataLoopRetrying(ads, i + 1, canH, loadOk, errors, c1, found)

\* the loop of get_data from position i on; canH and loadOk are what each
\* adapter's can_handle and load_data do for the context of this call.
\* found is always 0 here: the first success returns at once.
RECURSIVE GetDataLoop(_, _, _, _, _, _, _)
GetDataLoop(ads, i, canH, loadOk, errors, calls, found) ==
    IF i > Len(ads)
    THEN [outcome |-> "DataNotFoundError", source |-> 0,
          details |-> errors, calls |-> calls]
    ELSE LET a == ads[i]
             c1 == Append(calls, <<"can_handle", a.id>>)
             c2 == Append(c1, <<"load_data", a.id>>)
         IN  IF ShouldTry(a, canH)
             THEN IF loadOk[a.id]
                  THEN [outcome |-> "ok", source |-> a.id,
                        details |-> <<>>, calls |-> c2]
                  ELSE GetDataLoop(ads, i + 1, canH, loadOk,
                                   RecordError(errors, a), c2, found)
             ELSE GetDataLoop(ads, i + 1, canH, loadOk, errors, c1, found)


(***************************************************************************)
(* ModelRegistry                                                           *)
(***************************************************************************)
Countries == {"France", "Testland"}

\* core/config.py ENHANCED_MODEL_COUNTRIES
EnhancedModelCountries ==
    {"France", "US", "Brazil", "Germany", "Italy", "Spain", "United Kingdom", "China"}

\* kinds a caller requests: keys of the alternatives table (one of the three
\* linear kinds, which have no artifact on disk here), "default", and "svm"
\* for a kind the table does not know
Kinds ==
    {"enhanced", "lstm", "xgboost", "gradient_boosting", "random_forest",
     "linear_regression", "decision_tree", "default", "svm"}

\* kinds that artifacts on disk are drawn from
DiskKinds == {"gradient_boosting", "random_forest", "lstm", "default"}

\* kinds given to clear_cache: those that can be cached and one that cannot
ClearKinds == DiskKinds \cup {"xgboost"}

NoneArg == "None"

EmptyFn == [x \in {} |-> 0]

\* ModelRegistry._get_alternative_model_types
AlternativeModelTypes(k) ==
    CASE k = "enhanced" -> <<"lstm", "xgboost", "gradient_boosting", "random_forest">>
      [] k = "lstm" -> <<"enhanced", "xgboost", "gradient_boosting", "random_forest">>
      [] k = "xgboost" -> <<"gradient_boosting", "random_forest", "lstm", "enhanced">>
      [] k = "gradient_boosting" -> <<"xgboost", "random_forest", "lstm">>
      [] k = "random_forest" -> <<"gradient_boosting", "xgboost", "decision_tree">>
      [] k = "linear_regression" -> <<"ridge_regression", "lasso_regression">>
      [] k = "ridge_regression" -> <<"lasso_regression", "linear_regression">>
      [] k = "lasso_regression" -> <<"ridge_regression", "linear_regression">>
      [] k = "decision_tree" -> <<"random_forest", "gradient_boosting">>
      [] OTHER -> <<"xgboost", "gradient_boosting", "random_forest">>

\* str(model_file): models_root/{country}/{kind}.pkl
ModelPath(c, k) == <<c, k>>

\* the object pickle.load returns: a new one at every load
Artifact(path, id) == [path |-> path, id |-> id]

NoArtifact == [path |-> <<"", "">>, id |-> 0]

\* the objects the process still holds: the cached artifacts and the one a
\* caller kept
LiveIds(cache, kept) ==
    {cache[c][k].id : <<c, k>> \in {p \in Countries \X DiskKinds :
                                       p[1] \in DOMAIN cache /\ p[2] \in DOMAIN cache[p[1]]}}
        \cup {kept.artifact.id}

\* the identity of a newly unpickled object: different from every live one
FreshId(cache, kept) ==
    CHOOSE n \in 1..(Cardinality(LiveIds(cache, kept)) + 1) :
        /\ n \notin LiveIds(cache, kept)
        /\ \A m \in 1..(n - 1) : m \in LiveIds(cache, kept)

\* one metadata file next to an artifact, or the country's comparison table
\* fs[c] = [pkl: kinds with an artifact file, json: kind -> "none"|"ok"|"bad",
\*         cmp: "absent"|"bad"|"ok", rows: kinds with a row in the table]
\* ModelRegistry._load_model_metadata: the entry it leaves, "missing" for none
MetadataFor(dir, k) ==
    IF dir.json[k] = "ok" THEN "json"
    ELSE IF dir.json[k] = "bad" THEN "default"
    ELSE IF dir.cmp = "absent" THEN "default"
    ELSE IF dir.cmp = "bad" THEN "default"
    ELSE IF k \in dir.rows THEN "csv"
    ELSE "missing"

\* ModelRegistry._discover_models: the registry of a models directory
DiscoverRegistry(fs) ==
    [c \in DOMAIN fs |-> [k \in fs[c].pkl |-> ModelPath(c, k)]]

\* ModelRegistry._discover_models: the metadata of a models directory
DiscoverMetadata(fs) ==
    [c \in {d \in DOMAIN fs : fs[d].pkl # {}} |->
        [k \in {x \in fs[c].pkl : MetadataFor(fs[c], x) # "missing"} |->
            [source |-> MetadataFor(fs[c], k),
             metrics |-> IF MetadataFor(fs[c], k) = "default"
                         THEN <<>> ELSE <<c, k>>]]]

\* ModelRegistry.has_model
HasModel(reg, c, k) == c \in DOMAIN reg /\ k \in DOMAIN reg[c]

IsLoaded(cache, c, k) == c \in DOMAIN cache /\ k \in DOMAIN cache[c]

\* mutant: the loaded artifact is not stored
CachePutSkipped(cache, c, k, m) == cache

\* if country not in self.loaded_models: self.loaded_models[country] = {}
\* self.loaded_models[country][model_type] = model
CachePut(cache, c, k, m) ==
    LET inner == IF c \in DOMAIN cache THEN cache[c] ELSE EmptyFn
    IN  [x \in DOMAIN cache \cup {c} |->
            IF x = c
            THEN [y \in DOMAIN inner \cup {k} |-> IF y = k THEN m ELSE inner[y]]
            ELSE cache[x]]

\* mutant: the last registered alternative is taken instead of the first
RECURSIVE LastAvailable(_, _, _)
LastAvailable(reg, c, alts) ==
    IF alts = <<>> THEN NoneArg
    ELSE IF HasModel(reg, c, alts[Len(alts)]) THEN alts[Len(alts)]
    ELSE LastAvailable(reg, c, SubSeq(alts, 1, Len(alts) - 1))

\* for alt_type in alternative_types: if self.has_model(country, alt_type)
RECURSIVE FirstAvailable(_, _, _)
FirstAvailable(reg, c, alts) ==
    IF alts = <<>> THEN NoneArg
    ELSE IF HasModel(reg, c, Head(alts)) THEN Head(alts)
    ELSE FirstAvailable(reg, c, Tail(alts))

\* mutant: a failing call leaves the cache empty
RaisedDropsCache(why, cache, loads, depth) ==
    [outcome |-> "ModelNotFoundError", why |-> why, artifact |-> NoArtifact,
     cache |-> EmptyFn, loads |-> loads, depth |-> depth]

\* raise ModelNotFoundError: the cache is the one the call found
Raised(why, cache, loads, depth) ==
    [outcome |-> "ModelNotFoundError", why |-> why, artifact |-> NoArtifact,
     cache |-> cache, loads |-> loads, depth |-> depth]

Returned(m, cache, loads, depth) ==
    [outcome |-> "ok", why |-> "", artifact |-> m,
     cache |-> cache, loads |-> loads, depth |-> depth]

\* mutant: clearing one kind of a country drops the country's whole cache
ClearedCacheWholeCountry(cache, c, k) ==
    IF c # NoneArg
    THEN [x \in DOMAIN cache \ {c} |-> cache[x]]
    ELSE EmptyFn

\* mutant: a fallback loads the alternative's file itself and stores the
\* artifact under the kind that was asked for
GetModelCachesRequestedKind(reg, cache, c, k, loadOk, nid, loads, depth) ==
    LET alt == FirstAvailable(reg, c, AlternativeModelTypes(k))
        used == IF HasModel(reg, c, k) THEN k
                ELSE IF alt # NoneArg THEN alt
                ELSE IF HasModel(reg, c, "default") THEN "default"
                ELSE NoneArg
    IN  IF IsLoaded(cache, c, k)
        THEN Returned(cache[c][k], cache, loads, depth)
        ELSE IF used = NoneArg
        THEN Raised("model_not_found", cache, loads, depth)
        ELSE IF loadOk
        THEN Returned(Artifact(reg[c][used], nid),
                      CachePut(cache, c, k, Artifact(reg[c][used], nid)),
                      Append(loads, reg[c][used]),
                      IF used = k THEN depth ELSE depth + 1)
        ELSE Raised("model_loading_error", cache, Append(loads, reg[c][used]),
                    IF used = k THEN depth ELSE depth + 1)

\* mutant: "default" is tried before the alternatives
RECURSIVE GetModelDefaultFirst(_, _, _, _, _, _, _, _)
GetModelDefaultFirst(reg, cache, c, k, loadOk, nid, loads, depth) ==
    IF IsLoaded(cache, c, k)
    THEN Returned(cache[c][k], cache, loads, depth)
    ELSE IF HasModel(reg, c, k)
    THEN IF loadOk
         THEN Returned(Artifact(reg[c][k], nid),
                       CachePut(cache, c, k, Artifact(reg[c][k], nid)),
                       Append(loads, reg[c][k]), depth)
         ELSE Raised("model_loading_error", cache, Append(loads, reg[c][k]), depth)
    ELSE IF HasModel(reg, c, "default")
    THEN GetModelDefaultFirst(reg, cache, c, "default", loadOk, nid, loads, depth + 1)
    ELSE IF FirstAvailable(reg, c, AlternativeModelTypes(k)) # NoneArg
    THEN GetModelDefaultFirst(reg, cache, c,
                              FirstAvailable(reg, c, AlternativeModelTypes(k)),
                              loadOk, nid, loads, depth + 1)
    ELSE Raised("model_not_found", cache, loads, depth)

\* mutant: the first alternative of the table is entered without asking
\* has_model, and its own first alternative after it (cut off at the fourth call)
RECURSIVE GetModelFollowsTable(_, _, _, _, _, _, _, _)
GetModelFollowsTable(reg, cache, c, k, loadOk, nid, loads, depth) ==
    IF IsLoaded(cache, c, k)
    THEN Returned(cache[c][k], cache, loads, depth)
    ELSE IF HasModel(reg, c, k)
    THEN IF loadOk
         THEN Returned(Artifact(reg[c][k], nid),
                       CachePut(cache, c, k, Artifact(reg[c][k], nid)),
                       Append(loads, reg[c][k]), depth)
         ELSE Raised("model_loading_error", cache, Append(loads, reg[c][k]), depth)
    ELSE IF depth < 3 /\ c \in DOMAIN reg /\ reg[c] # EmptyFn
    THEN GetModelFollowsTable(reg, cache, c, AlternativeModelTypes(k)[1],
                              loadOk, nid, loads, depth + 1)
    ELSE Raised("model_not_found", cache, loads, depth)

\* ModelRegistry.get_model with _load_model; loadOk says whether reading and
\* unpickling the file succeeds, nid is the identity of the object it makes
RECURSIVE GetModelRec(_, _, _, _, _, _, _, _)
GetModelRec(reg, cache, c, k, loadOk, nid, loads, depth) ==
    IF IsLoaded(cache, c, k)
    THEN Returned(cache[c][k], cache, loads, depth)
    ELSE IF HasModel(reg, c, k)
    THEN LET path == reg[c][k]
             tried == Append(loads, path)
         IN  IF loadOk
             THEN Returned(Artifact(path, nid),
                           CachePut(cache, c, k, Artifact(path, nid)), tried, depth)
             ELSE Raised("model_loading_error", cache, tried, depth)
    ELSE LET alt == FirstAvailable(reg, c, AlternativeModelTypes(k))
         IN  IF alt # NoneArg
             THEN GetModelRec(reg, cache, c, alt, loadOk, nid, loads, depth + 1)
             ELSE IF HasModel(reg, c, "default")
             THEN GetModelRec(reg, cache, c, "default", loadOk, nid, loads, depth + 1)
             ELSE Raised("model_not_found", cache, loads, depth)

\* ModelRegistry.clear_cache
ClearedCache(cache, c, k) ==
    IF c # NoneArg
    THEN IF c \in DOMAIN cache
         THEN IF k # NoneArg
              THEN IF k \in DOMAIN cache[c]
                   THEN [x \in DOMAIN cache |->
                            IF x = c
                            THEN [y \in DOMAIN cache[c] \ {k} |-> cache[c][y]]
                            ELSE cache[x]]
                   ELSE cache
              ELSE [x \in DOMAIN cache \ {c} |-> cache[x]]
         ELSE cache
    ELSE EmptyFn

\* ModelRegistry.get_enhanced_countries (as a set)
EnhancedCountries(reg) ==
    {c \in DOMAIN reg : "enhanced" \in DOMAIN reg[c] \/ "lstm" \in DOMAIN reg[c]}
        \cup {c \in EnhancedModelCountries : c \in DOMAIN reg}

\* ModelRegistry.get_model_metrics
ModelMetrics(meta, c, k) ==
    IF c \notin DOMAIN meta
    THEN [outcome |-> "ModelNotFoundError", why |-> "country_not_found", value |-> EmptyFn]
    ELSE IF k # NoneArg
    THEN IF k \notin DOMAIN meta[c]
         THEN [outcome |-> "ModelNotFoundError", why |-> "model_not_found",
               value |-> EmptyFn]
         ELSE [outcome |-> "ok", why |-> "", value |-> meta[c][k]]
    ELSE [outcome |-> "ok", why |-> "", value |-> meta[c]]

\* ModelRegistry.get_available_model_types (the kinds as a set)
AvailableModelTypes(reg, c) ==
    IF c \notin DOMAIN reg
    THEN [outcome |-> "ModelNotFoundError", why |-> "country_not_found", value |-> {}]
    ELSE [outcome |-> "ok", why |-> "", value |-> DOMAIN reg[c]]

\* the kinds of artifact a directory of the metadata runs may hold
MetadataKinds == {"gradient_boosting", "lstm"}

\* a country directory: its artifact files, for each the state of the
\* metadata file beside it, the state of the comparison table and the kinds
\* the table has a row for
CountryDirs ==
    {[pkl |-> kinds, json |-> js, cmp |-> t[1], rows |-> t[2]] :
        kinds \in SUBSET MetadataKinds,
        js \in UNION {[ks -> {"ok", "bad", "none"}] : ks \in SUBSET MetadataKinds},
        t \in ({"absent", "bad"} \X {{}}) \cup ({"ok"} \X SUBSET MetadataKinds)}

\* the models directories discovery may find: a directory per country or
\* none, a directory possibly without artifacts, at most MaxEntries artifacts
ModelsDirectories ==
    {fs \in UNION {[cs -> CountryDirs] : cs \in SUBSET Countries} :
        /\ \A c \in DOMAIN fs :
              /\ DOMAIN fs[c].json = fs[c].pkl
              /\ fs[c].rows \subseteq fs[c].pkl
              /\ fs[c].pkl = {} => fs[c].cmp = "absent"
        /\ Cardinality(UNION {{<<c, k>> : k \in fs[c].pkl} : c \in DOMAIN fs})
              <= MaxEntries}

\* the models directories a run may start from: at most MaxEntries artifact
\* files, no metadata file and no comparison table beside them
PlainDir(kinds) ==
    [pkl |-> kinds, json |-> [k \in kinds |-> "none"], cmp |-> "absent", rows |-> {}]

PlainFileSystems ==
    {[c \in {f[1] : f \in files} |-> PlainDir({k \in DiskKinds : <<c, k>> \in files})] :
        files \in {fl \in SUBSET (Countries \X DiskKinds) : Cardinality(fl) <= MaxEntries}}

(***************************************************************************)
(* RawDataAdapter / EnhancedDataAdapter: load_data and its derivation step *)
(***************************************************************************)
\* values a cases column and a deaths column of a stored file may hold
CaseValues == {0, 60}
DeathValues == {0, 1}

\* the days on record, numbered from the first
Dates == {1, 2, 3}

\* start_date / end_date left out of a context
NoDate == 0

EssentialColumns == {"country", "date_value"}

CaseColumns == {"total_cases", "new_cases"}

DeathColumns == {"total_deaths", "new_deaths"}

Range(s) == {s[i] : i \in DOMAIN s}

\* one row of a table; a column the table does not have holds 0 and is never read
Row(c, d, x, y, cols) ==
    [country |-> c, date_value |-> d,
     total_cases |-> IF "total_cases" \in cols THEN x ELSE 0,
     new_cases |-> IF "new_cases" \in cols THEN x ELSE 0,
     total_deaths |-> IF "total_deaths" \in cols THEN y ELSE 0,
     new_deaths |-> IF "new_deaths" \in cols THEN y ELSE 0]

\* alphabetical order of the country names
CountryRank(c) == IF c = "France" THEN 1 ELSE 2

Before(a, b) ==
    \/ CountryRank(a.country) < CountryRank(b.country)
    \/ a.country = b.country /\ a.date_value < b.date_value

RECURSIVE InsertSorted(_, _)
InsertSorted(s, x) ==
    IF s = <<>> THEN <<x>>
    ELSE IF Before(x, s[Len(s)])
         THEN Append(InsertSorted(SubSeq(s, 1, Len(s) - 1), x), s[Len(s)])
         ELSE Append(s, x)

RECURSIVE SortFrom(_, _)
SortFrom(s, acc) ==
    IF s = <<>> THEN acc ELSE SortFrom(Tail(s), InsertSorted(acc, Head(s)))

\* df.sort_values(["country", "date_value"])
SortValues(rows) == SortFrom(rows, <<>>)

\* mutant: the row above, whatever its country
PrevRowAnyCountry(rows, i) == i - 1

\* the row before row i in row i's group of groupby("country"), 0 if none
PrevInGroup(rows, i) ==
    LET same == {j \in 1..(i - 1) : rows[j].country = rows[i].country}
    IN  IF same = {} THEN 0 ELSE CHOOSE j \in same : \A l \in same : l <= j

\* one value of Series.diff()
Diff(rows, col, i, p) == rows[i][col] - rows[p][col]

\* df.groupby("country")[col].diff().fillna(0)
GroupDiff(rows, col) ==
    [i \in DOMAIN rows |->
        IF PrevInGroup(rows, i) = 0 THEN 0
        ELSE Diff(rows, col, i, PrevInGroup(rows, i))]

RECURSIVE GroupSum(_, _, _)
GroupSum(rows, col, i) ==
    rows[i][col] + (IF PrevInGroup(rows, i) = 0 THEN 0
                    ELSE GroupSum(rows, col, PrevInGroup(rows, i)))

\* df.groupby("country")[col].cumsum()
GroupCumsum(rows, col) == [i \in DOMAIN rows |-> GroupSum(rows, col, i)]

\* df[col] = vals
WithColumn(t, col, vals) ==
    [cols |-> t.cols \cup {col},
     rows |-> [i \in DOMAIN t.rows |-> [t.rows[i] EXCEPT ![col] = vals[i]]]]

Sorted(t) == [t EXCEPT !.rows = SortValues(t.rows)]

DeriveByDiff(t, new, total) ==
    IF new \notin t.cols /\ total \in t.cols
    THEN WithColumn(Sorted(t), new, GroupDiff(Sorted(t).rows, total))
    ELSE t

DeriveByCumsum(t, total, new) ==
    IF total \notin t.cols /\ new \in t.cols
    THEN WithColumn(Sorted(t), total, GroupCumsum(Sorted(t).rows, new))
    ELSE t

\* (x * 0.02).astype(int): truncation toward zero
EstimatedDeaths(x) == IF x >= 0 THEN x \div 50 ELSE -((-x) \div 50)

EstimateTotalDeaths(t) ==
    WithColumn(t, "total_deaths",
               [i \in DOMAIN t.rows |-> EstimatedDeaths(t.rows[i].total_cases)])

\* the four derivations both adapters share, in the order of the code
DeriveColumns(t) ==
    DeriveByCumsum(
        DeriveByDiff(
            DeriveByCumsum(DeriveByDiff(t, "new_cases", "total_cases"),
                           "total_cases", "new_cases"),
            "new_deaths", "total_deaths"),
        "total_deaths", "new_deaths")

NeedsEstimate(t) == "total_deaths" \notin t.cols /\ "total_cases" \in t.cols

\* RawDataAdapter._enrich_data
RawEnrichData(t) ==
    LET d == DeriveColumns(t)
        e == Sorted(EstimateTotalDeaths(d))
    IN  IF NeedsEstimate(d)
        THEN WithColumn(e, "new_deaths", GroupDiff(e.rows, "total_deaths"))
        ELSE d

\* EnhancedDataAdapter._enrich_data
EnhancedEnrichData(t) ==
    IF NeedsEstimate(DeriveColumns(t))
    THEN EstimateTotalDeaths(DeriveColumns(t))
    ELSE DeriveColumns(t)

\* DataAdapter.validate_data
ValidateData(t, ctx) ==
    IF ~(ctx.required_columns \subseteq t.cols) THEN "DataValidationError"
    ELSE IF t.rows = <<>> THEN "DataNotFoundError"
    ELSE "ok"

InWindow(r, ctx) ==
    /\ ctx.start_date = NoDate \/ r.date_value >= ctx.start_date
    /\ ctx.end_date = NoDate \/ r.date_value <= ctx.end_date

KeptByContext(r, ctx) ==
    /\ ctx.countries = <<>> \/ r.country \in Range(ctx.countries)
    /\ InWindow(r, ctx)

\* DataAdapter.process_data (no sort_by, offset or limit in the context)
ProcessData(t, ctx) ==
    [t EXCEPT !.rows = SelectSeq(t.rows, LAMBDA r : KeptByContext(r, ctx))]

NoTable == [cols |-> {}, rows |-> <<>>]

LoadRaised(exc, why) ==
    [outcome |-> exc, why |-> why, derived |-> NoTable, table |-> NoTable]

LoadReturned(derived, table) ==
    [outcome |-> "ok", why |-> "", derived |-> derived, table |-> table]

AvailableCountries(t) == {r.country : r \in Range(t.rows)}

OfCountries(t, cs) ==
    [t EXCEPT !.rows = SelectSeq(t.rows, LAMBDA r : r.country \in cs)]

\* validate, then process: the tail of both load_data
ValidateAndProcess(enriched, ctx) ==
    IF ValidateData(enriched, ctx) # "ok"
    THEN LoadRaised(ValidateData(enriched, ctx),
                    IF enriched.rows = <<>> /\ ctx.required_columns \subseteq enriched.cols
                    THEN "empty_data" ELSE "missing_column")
    ELSE LoadReturned(enriched, ProcessData(enriched, ctx))

\* RawDataAdapter.load_data, the data file present and readable
RawLoadData(file, ctx) ==
    LET wanted == Range(ctx.countries) \cap AvailableCountries(file)
    IN  IF ctx.countries # <<>> /\ wanted = {}
        THEN LoadRaised("DataNotFoundError", "country_not_found")
        ELSE ValidateAndProcess(
                 RawEnrichData(IF ctx.countries # <<>> THEN OfCountries(file, wanted)
                               ELSE file), ctx)

RECURSIVE Concat(_, _)
\* pd.concat of the per-country frames, in the order they were loaded
Concat(t, order) ==
    IF order = <<>> THEN <<>>
    ELSE OfCountries(t, {Head(order)}).rows \o Concat(t, Tail(order))

\* EnhancedDataAdapter.load_data, one readable file per available country;
\* order is the iteration order of the set of available countries
EnhancedLoadData(dir, ctx, order) ==
    LET toLoad == IF ctx.countries # <<>> THEN ctx.countries ELSE order
        available == SelectSeq(toLoad, LAMBDA c : c \in AvailableCountries(dir))
    IN  IF available = <<>>
        THEN LoadRaised("DataNotFoundError", "country_not_found")
        ELSE ValidateAndProcess(
                 EnhancedEnrichData([dir EXCEPT !.rows = Concat(dir, available)]), ctx)

\* the orders in which a set of countries may be iterated
Orders(cs) ==
    {s \in UNION {[1..n -> cs] : n \in {Cardinality(cs)}} :
        \A i, j \in DOMAIN s : i # j => s[i] # s[j]}

AllOrders == UNION {Orders(cs) : cs \in SUBSET Countries}

\* France has up to three days on record, Testland one
Keys == ({"France"} \X Dates) \cup {<<"Testland", 1>>}

\* at most MaxRows rows, one per country and date, in any order
KeySeqs ==
    {s \in UNION {[1..n -> Keys] : n \in 0..MaxRows} :
        \A i, j \in DOMAIN s : i # j => s[i] # s[j]}

ValuesFor(cols, values) == IF cols = {} THEN {0} ELSE values

\* a stored table with the columns cols: the rows of keys ks with the values xs, ys
Table(cols, ks, xs, ys) ==
    [cols |-> EssentialColumns \cup cols,
     rows |-> [i \in DOMAIN ks |-> Row(ks[i][1], ks[i][2], xs[i], ys[i], cols)]]

\* DataContext(country=, countries=, start_date=, end_date=): the list of
\* countries defaults to the single country when that one is given
DataContext(country, countries, from, to) ==
    [country |-> country,
     countries |-> IF countries # <<>> THEN countries
                   ELSE IF country # NoneArg THEN <<country>>
                   ELSE <<>>,
     start_date |-> from, end_date |-> to,
     required_columns |-> EssentialColumns]

\* DataContext(countries=cs, start_date=, end_date=)
Context(cs, from, to) == DataContext(NoneArg, cs, from, to)

\* the contexts can_handle is asked about: a single country or none, with a
\* list of countries or none
CanHandleContexts ==
    {DataContext(c, cs, NoDate, NoDate) :
        c \in Countries \cup {NoneArg},
        cs \in {<<>>, <<"France">>, <<"Testland">>, <<"France", "Testland">>}}

\* DataContext objects: all countries or one; no window or a one-day window
Contexts ==
    {Context(cs, w[1], w[2]) :
        cs \in {<<>>, <<"France">>},
        w \in {<<NoDate, NoDate>>, <<2, 2>>}}

NoLoadRes ==
    [adapter |-> "none", ctx |-> Context(<<>>, NoDate, NoDate), outcome |-> "none",
     why |-> "", derived |-> NoTable, table |-> NoTable, storage |-> TRUE]

(***************************************************************************)
(* COVIDPredictor                                                          *)
(***************************************************************************)
\* kinds a forecast is requested with: one with artifacts, one without
RequestKinds == {"gradient_boosting", "xgboost"}

\* kinds the artifacts of a forecasting run are drawn from
PredictDiskKinds == {"gradient_boosting", "enhanced"}

\* model.predict raises
Raises == [raise |-> TRUE, value |-> 0]

\* model.predict returns v
Gives(v) == [raise |-> FALSE, value |-> v]

\* what model.predict does on one day
ModelOutputs == {Raises, Gives(-5), Gives(40)}

\* numbers are kept in hundredths, so that x * 1.05, x * 0.8, x * 1.2 and
\* the sums of such are exact
Hundredths(n) == 100 * n

\* v * (pct / 100) for v in hundredths
TimesPct(v, pct) == (v * pct) \div 100

\* max(0, v)
Max0(v) == IF v < 0 THEN 0 ELSE v

\* round(v) of Python 3 for v in hundredths: to the nearest integer, a tie
\* to the even one
Round(v) ==
    LET q == v \div 100
        r == v % 100
    IN  IF r < 50 THEN q
        ELSE IF r > 50 THEN q + 1
        ELSE IF q % 2 = 0 THEN q ELSE q + 1

\* one element of the predictions list; estimation FALSE stands for the key
\* being absent
Entry(date, new, total, lower, upper, estimation) ==
    [date |-> date, new_cases |-> Round(new), total_cases |-> Round(total),
     lower_bound |-> Round(lower), upper_bound |-> Round(upper),
     estimation |-> estimation]

\* DataAdapter.can_handle of both adapters, the storage location present
\* mutant: a known member of the list is enough, whatever the single country
CanHandleAnyRequested(present, known, ctx) ==
    /\ present
    /\ known # {}
    /\ (ctx.country # NoneArg \/ ctx.countries # <<>>) =>
          (({ctx.country} \ {NoneArg}) \cup Range(ctx.countries)) \cap known # {}

\* can_handle of both adapters: present says whether the storage location
\* exists, known is the adapter's _available_countries
AdapterCanHandle(present, known, ctx) ==
    IF ~present THEN FALSE
    ELSE IF known = {} THEN FALSE
    ELSE IF ctx.country # NoneArg /\ ctx.country \notin known THEN FALSE
    ELSE IF ctx.countries # <<>> /\ Range(ctx.countries) \cap known = {} THEN FALSE
    ELSE TRUE

\* can_handle with the storage location present, its countries those of t
CanHandle(t, ctx) == AdapterCanHandle(TRUE, AvailableCountries(t), ctx)

\* adapter.load_data(context) for a context that names its countries
AdapterLoad(a, t, ctx) ==
    IF a.name = "enhanced_data" THEN EnhancedLoadData(t, ctx, ctx.countries)
    ELSE RawLoadData(t, ctx)

\* DataAccessManager.get_historical_data(country) over the two built-in adapters
GetHistoricalData(ads, t, c) ==
    LET ctx == DataContext(c, <<>>, NoDate, NoDate)
        byId == [id \in AdapterIds(ads) |-> CHOOSE a \in Range(ads) : a.id = id]
        got == GetDataLoop(ads, 1,
                           [id \in AdapterIds(ads) |-> CanHandle(t, ctx)],
                           [id \in AdapterIds(ads) |->
                               AdapterLoad(byId[id], t, ctx).outcome = "ok"],
                           <<>>, <<>>, 0)
    IN  IF got.outcome = "ok"
        THEN [outcome |-> "ok", table |-> AdapterLoad(byId[got.source], t, ctx).table]
        ELSE [outcome |-> got.outcome, table |-> NoTable]

RECURSIVE InsertByDate(_, _)
InsertByDate(s, x) ==
    IF s = <<>> THEN <<x>>
    ELSE IF x.date_value < s[Len(s)].date_value
         THEN Append(InsertByDate(SubSeq(s, 1, Len(s) - 1), x), s[Len(s)])
         ELSE Append(s, x)

RECURSIVE SortByDateFrom(_, _)
SortByDateFrom(s, acc) ==
    IF s = <<>> THEN acc ELSE SortByDateFrom(Tail(s), InsertByDate(acc, Head(s)))

\* historical_data.sort_values("date_value")
SortByDate(rows) == SortByDateFrom(rows, <<>>)

\* data["date_value"].max()
LastDate(rows) ==
    CHOOSE d \in {r.date_value : r \in Range(rows)} :
        \A r \in Range(rows) : r.date_value <= d

\* data.loc[data["date_value"] == last_date].iloc[0]
LastRow(rows) ==
    rows[CHOOSE i \in DOMAIN rows :
            /\ rows[i].date_value = LastDate(rows)
            /\ \A j \in DOMAIN rows : rows[j].date_value = LastDate(rows) => i <= j]

\* predicted_new_cases = current_new_cases * 1.05
Estimate(new) == TimesPct(new, 105)

RECURSIVE StandardLoop(_, _, _, _, _, _, _)
\* the loop of _generate_standard_predictions from day i on; date, total and
\* new are current_date, current_total_cases and current_new_cases
StandardLoop(outs, i, days, date, total, new, acc) ==
    IF i > days THEN acc
    ELSE IF outs[i].raise
    THEN StandardLoop(outs, i + 1, days, date + 1, total + Estimate(new), new,
             Append(acc, Entry(date + 1, Estimate(new), total + Estimate(new),
                               TimesPct(Estimate(new), 80),
                               TimesPct(Estimate(new), 120), TRUE)))
    ELSE LET pred == Max0(Hundredths(outs[i].value))
         IN  StandardLoop(outs, i + 1, days, date + 1, total + pred, pred,
                 Append(acc, Entry(date + 1, pred, total + pred,
                                   Max0(TimesPct(pred, 80)), TimesPct(pred, 120),
                                   FALSE)))

\* COVIDPredictor._generate_standard_predictions
GenerateStandardPredictions(outs, data, days) ==
    StandardLoop(outs, 1, days, LastDate(data.rows),
                 IF "total_cases" \in data.cols
                 THEN Hundredths(LastRow(data.rows).total_cases) ELSE 0,
                 IF "new_cases" \in data.cols
                 THEN Hundredths(LastRow(data.rows).new_cases) ELSE 0,
                 <<>>)

RECURSIVE LstmLoop(_, _, _, _, _)
\* the loop of _process_lstm_predictions over raw_predictions[0]
LstmLoop(raw, i, date, total, acc) ==
    IF i > Len(raw) THEN acc
    ELSE LET pred == Max0(Hundredths(raw[i]))
         IN  LstmLoop(raw, i + 1, date + 1, total + pred,
                 Append(acc, Entry(date + 1, pred, total + pred,
                                   Max0(TimesPct(pred, 90 - (i - 1))),
                                   TimesPct(pred, 110 + (i - 1)), FALSE)))

\* COVIDPredictor._process_lstm_predictions
ProcessLstmPredictions(raw, last_date, last_values) ==
    LstmLoop(raw, 1, last_date,
             IF "total_cases" \in last_values.cols
             THEN Hundredths(last_values.rows[Len(last_values.rows)].total_cases)
             ELSE 0,
             <<>>)

\* what a model's own predict_sequence(last_values, days) hands back: n
\* points of its making, step days apart
NativeSequence(n, step, last_date) ==
    [i \in 1..n |-> Entry(last_date + step * i, Hundredths(40),
                          Hundredths(40 * i), Hundredths(36), Hundredths(44), FALSE)]

\* _prepare_sequence_data selects new_cases and total_cases: KeyError without
SequenceColumnsPresent(data) == {"new_cases", "total_cases"} \subseteq data.cols

\* mutant: a failure inside the enhanced path leaves the days the model
\* could not answer out instead of starting the standard path over
GenerateEnhancedSkipsFailedDays(b, data, days) ==
    IF b.shape = "sequence" /\ ~b.seq.raise
    THEN [path |-> "sequence",
          predictions |-> NativeSequence(Len(b.seq.raw), b.seq.step,
                                         LastDate(data.rows))]
    ELSE IF b.shape = "lstm" /\ ~b.seq.raise /\ SequenceColumnsPresent(data)
    THEN [path |-> "lstm",
          predictions |-> ProcessLstmPredictions(b.seq.raw, LastDate(data.rows), data)]
    ELSE IF b.shape = "plain"
    THEN [path |-> "standard",
          predictions |-> GenerateStandardPredictions(b.outs, data, days)]
    ELSE [path |-> "fallback",
          predictions |-> SelectSeq(GenerateStandardPredictions(b.outs, data, days),
                                    LAMBDA e : ~e.estimation)]

\* COVIDPredictor._generate_enhanced_predictions; b is the behaviour of the
\* artifact: its shape (plain estimator, own predict_sequence, recurrent
\* class), what its sequence call gives, and what predict gives day by day
GenerateEnhancedPredictions(b, data, days) ==
    IF b.shape = "sequence" /\ ~b.seq.raise
    THEN [path |-> "sequence",
          predictions |-> NativeSequence(Len(b.seq.raw), b.seq.step,
                                         LastDate(data.rows))]
    ELSE IF b.shape = "lstm" /\ ~b.seq.raise /\ SequenceColumnsPresent(data)
    THEN [path |-> "lstm",
          predictions |-> ProcessLstmPredictions(b.seq.raw, LastDate(data.rows), data)]
    ELSE [path |-> IF b.shape = "plain" THEN "standard" ELSE "fallback",
          predictions |-> GenerateStandardPredictions(b.outs, data, days)]

PredictRaised(why, cache, used) ==
    [outcome |-> "PredictionError", why |-> why, cache |-> cache,
     model_used |-> used, resolved |-> NoArtifact, path |-> "none",
     predictions |-> <<>>, metrics |-> <<>>, data |-> NoTable]

\* whether get_model, called from predict, reads an artifact from disk
LoadAttempted(reg, cache, c, used) ==
    GetModelRec(reg, cache, c, used, TRUE, 0, <<>>, 0).loads # <<>>

\* effective_model_type of predict
EffectiveModelType(reg, c, kind, enh) ==
    IF enh /\ c \in EnhancedCountries(reg) THEN "enhanced" ELSE kind

\* the steps of predict after the model was asked for: m is what get_model
\* did, h what get_historical_data did, mt what get_model_metrics does
PredictSteps(used, m, h, mt, days, enh, b) ==
    IF m.outcome # "ok" THEN PredictRaised(m.why, m.cache, used)
    ELSE IF h.outcome # "ok" \/ h.table.rows = <<>>
    THEN PredictRaised("data_preparation_error", m.cache, used)
    ELSE IF mt.outcome # "ok" THEN PredictRaised("no_metadata", m.cache, used)
    ELSE [outcome |-> "ok", why |-> "", cache |-> m.cache, model_used |-> used,
          resolved |-> m.artifact,
          path |-> IF enh THEN GenerateEnhancedPredictions(b, h.table, days).path
                   ELSE "standard",
          predictions |->
              IF enh THEN GenerateEnhancedPredictions(b, h.table, days).predictions
              ELSE GenerateStandardPredictions(b.outs, h.table, days),
          metrics |-> mt.value.metrics, data |-> h.table]

\* _prepare_prediction_data: the history of the country, sorted by date
PrepareData(h) ==
    IF h.outcome = "ok" THEN [h EXCEPT !.table.rows = SortByDate(h.table.rows)]
    ELSE h

\* COVIDPredictor.predict: every exception on the way becomes PredictionError
PredictOutcome(reg, meta, cache, ads, t, c, days, kind, enh, loadOk, b, nid) ==
    PredictSteps(EffectiveModelType(reg, c, kind, enh),
                 GetModelRec(reg, cache, c, EffectiveModelType(reg, c, kind, enh),
                             loadOk, nid, <<>>, 0),
                 PrepareData(GetHistoricalData(ads, t, c)),
                 ModelMetrics(meta, c, EffectiveModelType(reg, c, kind, enh)),
                 days, enh, b)

\* routes/api.py predict_cases: the status of the HTTP response; every
\* exception of predict is answered with HTTPException(500)
PredictCasesStatus(outcome) == IF outcome = "ok" THEN 200 ELSE 500

\* routes/api.py get_historical_data: the status of the HTTP response; every
\* exception of the data manager is answered with HTTPException(404)
HistoricalDataStatus(outcome) == IF outcome = "ok" THEN 200 ELSE 404

\* an exception was caught at a site and not raised again / a log call there
Caught(site) == [kind |-> "caught", site |-> site]

Logged(site) == [kind |-> "log", site |-> site]

\* DataAccessManager.get_available_countries from adapter i on: the countries
\* found so far and the events of the except branch
RECURSIVE ManagerAvailableCountries(_, _, _, _, _)
ManagerAvailableCountries(ads, i, t, found, events) ==
    IF i > Len(ads) THEN [countries |-> found, events |-> events]
    ELSE LET ctx == [DataContext(NoneArg, <<>>, NoDate, NoDate)
                        EXCEPT !.required_columns = {"country"}]
             r == IF ads[i].name = "enhanced_data"
                  THEN EnhancedLoadData(t, ctx,
                           CHOOSE o \in Orders(AvailableCountries(t)) : TRUE)
                  ELSE RawLoadData(t, ctx)
         IN  IF ~CanHandle(t, ctx)
             THEN ManagerAvailableCountries(ads, i + 1, t, found, events)
             ELSE IF r.outcome = "ok"
             THEN ManagerAvailableCountries(ads, i + 1, t,
                      found \cup AvailableCountries(r.table), events)
             ELSE ManagerAvailableCountries(ads, i + 1, t, found,
                      events \o <<Caught("manager.get_available_countries"),
                                  Logged("manager.get_available_countries")>>)

\* sorted(list(all_countries))
SortedCountries(cs) == SelectSeq(<<"France", "Testland">>, LAMBDA c : c \in cs)

\* routes/api.py get_available_countries, the loop over the countries: one
\* CountryInfo per country; a failing get_available_model_types is passed over
RECURSIVE CountryInfos(_, _, _, _, _)
CountryInfos(reg, names, i, infos, events) ==
    IF i > Len(names) THEN [infos |-> infos, events |-> events]
    ELSE LET types == AvailableModelTypes(reg, names[i])
             info == [name |-> names[i],
                      has_enhanced_model |-> names[i] \in EnhancedCountries(reg),
                      available_models |-> types.value,
                      data_quality |-> IF names[i] \in EnhancedCountries(reg)
                                       THEN "enhanced" ELSE "standard"]
         IN  CountryInfos(reg, names, i + 1, Append(infos, info),
                          IF types.outcome = "ok" THEN events
                          ELSE Append(events, Caught("routes.get_available_countries")))

\* the sequence call of the artifact raises
SeqRaises == [raise |-> TRUE, raw |-> <<>>, step |-> 1]

\* the sequence call of the artifact gives one point per element of raw
SeqGives(raw, step) == [raise |-> FALSE, raw |-> raw, step |-> step]

AllRaise(days) == [i \in 1..days |-> Raises]

\* behaviours of an artifact over a call of predict for days days; a part
\* of the behaviour the path taken does not consult is left at one value
Behaviours(days) ==
    {[shape |-> "plain", outs |-> outs, seq |-> SeqRaises] :
        outs \in [1..days -> ModelOutputs]}
    \cup {[shape |-> sh, outs |-> outs, seq |-> SeqRaises] :
            sh \in {"sequence", "lstm"}, outs \in [1..days -> ModelOutputs]}
    \cup {[shape |-> "sequence", outs |-> AllRaise(days), seq |-> SeqGives(raw, step)] :
            raw \in UNION {[1..n -> {40}] : n \in 0..MaxDays}, step \in {1, 2}}
    \cup {[shape |-> "lstm", outs |-> AllRaise(days), seq |-> SeqGives(raw, 1)] :
            raw \in UNION {[1..n -> {-5, 40}] : n \in 0..MaxDays}}

\* a country directory of artifacts; cmp tells whether models_comparison.csv
\* is there, and it has no row for any of these kinds
PredictDir(kinds, cmp) ==
    [pkl |-> kinds, json |-> [k \in kinds |-> "none"], cmp |-> cmp, rows |-> {}]

PredictFileSystems ==
    {[c \in {f[1] : f \in files} |->
         PredictDir({k \in PredictDiskKinds : <<c, k>> \in files}, cmp)] :
        files \in {fl \in SUBSET (Countries \X PredictDiskKinds) :
                      Cardinality(fl) <= MaxEntries},
        cmp \in {"absent", "ok"}}

\* the days on record of a forecasting run: France from day 1 on, Testland day 1
PredictKeySeqs ==
    {[i \in 1..n |-> <<"France", i>>] \o << <<"Testland", 1>> >> :
        n \in 0..(MaxRows - 1)}

NoBehaviour == [shape |-> "plain", outs |-> <<>>, seq |-> SeqRaises]

NoPredRes ==
    [op |-> "none", c |-> "", days |-> 0, kind |-> "", enh |-> FALSE,
     loadOk |-> TRUE, b |-> NoBehaviour, outcome |-> "none", why |-> "",
     model_used |-> "", resolved |-> NoArtifact, path |-> "none",
     predictions |-> <<>>, metrics |-> <<>>, data |-> NoTable,
     status |-> 0, events |-> <<>>, countries |-> <<>>]

NoRegRes ==
    [op |-> "none", c |-> "", k |-> "", outcome |-> "none", why |-> "",
     artifact |-> NoArtifact, loads |-> <<>>, depth |-> 0, prev |-> NoArtifact,
     before |-> EmptyFn, value |-> EmptyFn, loadOk |-> TRUE]

\* the threads that may be inside get_model at the same time
Threads == {1, 2}

NoThread ==
    [pc |-> "idle", c |-> "", k |-> "", loadOk |-> TRUE, model |-> NoArtifact,
     result |-> NoArtifact, before |-> EmptyFn]

NoThreads == [t \in Threads |-> NoThread]

NoWatch == [c |-> "", k |-> "", artifact |-> NoArtifact]

NoDataRes ==
    [outcome |-> "none", source |-> 0, details |-> <<>>, calls |-> <<>>,
     ads |-> <<>>, canH |-> <<>>, loadOk |-> <<>>]

IdleData ==
    /\ adapters = InitialAdapters
    /\ dataRes = NoDataRes

IdleRegistry ==
    /\ registry = EmptyFn
    /\ loaded_models = EmptyFn
    /\ model_metadata = EmptyFn
    /\ regRes = NoRegRes
    /\ watch = NoWatch
    /\ threads = NoThreads

IdleLoad ==
    /\ stored = NoTable
    /\ loadRes = NoLoadRes

IdlePredict == predRes = NoPredRes

(***************************************************************************)
(* Specification of the DataAccessManager                                  *)
(***************************************************************************)
InitData ==
    /\ IdleData
    /\ IdleRegistry
    /\ IdleLoad
    /\ IdlePredict

\* DataAccessManager.register_adapter(adapter)
RegisterAdapter(p) ==
    /\ Len(adapters) < MaxAdapters
    /\ adapters' = SortAdapters(Append(adapters,
                        Adapter(Len(adapters) + 1, "custom", p)))
    /\ UNCHANGED dataRes
    /\ UNCHANGED <<regVars, loadVars, predRes>>

\* DataAccessManager.get_data(context)
GetData(canH, loadOk) ==
    /\ LET r == GetDataLoop(adapters, 1, canH, loadOk, <<>>, <<>>, 0)
       IN  dataRes' = [outcome |-> r.outcome, source |-> r.source,
                       details |-> r.details, calls |-> r.calls,
                       ads |-> adapters, canH |-> canH, loadOk |-> loadOk]
    /\ UNCHANGED adapters
    /\ UNCHANGED <<regVars, loadVars, predRes>>

NextData ==
    \/ \E p \in Priorities : RegisterAdapter(p)
    \/ \E canH \in [AdapterIds(adapters) -> BOOLEAN],
          loadOk \in [AdapterIds(adapters) -> BOOLEAN] : GetData(canH, loadOk)

SpecData == InitData /\ [][NextData]_vars

(***************************************************************************)
(* Specification of the ModelRegistry                                      *)
(***************************************************************************)
\* ModelRegistry.__init__ on a models directory
InitRegistry ==
    /\ IdleData
    /\ IdleLoad
    /\ IdlePredict
    /\ \E fs \in PlainFileSystems :
          /\ registry = DiscoverRegistry(fs)
          /\ model_metadata = DiscoverMetadata(fs)
    /\ loaded_models = EmptyFn
    /\ regRes = NoRegRes
    /\ watch = NoWatch
    /\ threads = NoThreads

\* ModelRegistry.get_model(country, model_type); watchIt starts the history
\* of this (country, kind) when the call succeeds, before is the cache the
\* call found
GetModel(c, k, loadOk, watchIt) ==
    LET r == GetModelRec(registry, loaded_models, c, k, loadOk,
                         FreshId(loaded_models, watch), <<>>, 0)
        same == watch.c = c /\ watch.k = k
    IN  /\ regRes = NoRegRes
        \* inputs that change nothing are not tried twice
        /\ watchIt => (watch = NoWatch /\ r.outcome = "ok")
        /\ ~loadOk => r.loads # <<>>
        /\ loaded_models' = r.cache
        /\ regRes' = [op |-> "get_model", c |-> c, k |-> k,
                      outcome |-> r.outcome, why |-> r.why,
                      artifact |-> r.artifact, loads |-> r.loads,
                      depth |-> r.depth,
                      prev |-> IF same THEN watch.artifact ELSE NoArtifact,
                      before |-> loaded_models, value |-> EmptyFn,
                      loadOk |-> loadOk]
        /\ watch' = IF watch = NoWatch /\ r.outcome = "ok" /\ watchIt
                    THEN [c |-> c, k |-> k, artifact |-> r.artifact]
                    ELSE watch
        /\ UNCHANGED <<registry, model_metadata, threads>>
        /\ UNCHANGED <<dataVars, loadVars, predRes>>

\* ModelRegistry.clear_cache(country, model_type); before is the cache the
\* call found
ClearCache(c, k) ==
    /\ regRes = NoRegRes
    /\ loaded_models' = ClearedCache(loaded_models, c, k)
    /\ regRes' = [NoRegRes EXCEPT !.op = "clear_cache", !.c = c, !.k = k,
                                  !.outcome = "ok", !.before = loaded_models]
    /\ watch' = NoWatch
    /\ UNCHANGED <<registry, model_metadata, threads>>
    /\ UNCHANGED <<dataVars, loadVars, predRes>>

\* ModelRegistry.has_model(country, model_type)
HasModelCall(c, k) ==
    /\ regRes = NoRegRes
    /\ regRes' = [NoRegRes EXCEPT !.op = "has_model",
                     !.outcome = IF HasModel(registry, c, k) THEN "true" ELSE "false"]
    /\ UNCHANGED <<registry, loaded_models, model_metadata, watch, threads>>
    /\ UNCHANGED <<dataVars, loadVars, predRes>>

\* ModelRegistry.get_model_metrics(country, model_type)
GetModelMetrics(c, k) ==
    /\ regRes = NoRegRes
    /\ regRes' = [NoRegRes EXCEPT !.op = "get_model_metrics", !.c = c, !.k = k,
                     !.outcome = ModelMetrics(model_metadata, c, k).outcome,
                     !.why = ModelMetrics(model_metadata, c, k).why,
                     !.value = ModelMetrics(model_metadata, c, k).value]
    /\ UNCHANGED <<registry, loaded_models, model_metadata, watch, threads>>
    /\ UNCHANGED <<dataVars, loadVars, predRes>>

\* ModelRegistry.get_available_model_types(country)
GetAvailableModelTypes(c) ==
    /\ regRes = NoRegRes
    /\ regRes' = [NoRegRes EXCEPT !.op = "get_available_model_types", !.c = c,
                     !.outcome = AvailableModelTypes(registry, c).outcome,
                     !.why = AvailableModelTypes(registry, c).why,
                     !.value = AvailableModelTypes(registry, c).value]
    /\ UNCHANGED <<registry, loaded_models, model_metadata, watch, threads>>
    /\ UNCHANGED <<dataVars, loadVars, predRes>>

\* the call returns: its caller takes the result
RegistryCallReturns ==
    /\ regRes # NoRegRes
    /\ regRes' = NoRegRes
    /\ UNCHANGED <<registry, loaded_models, model_metadata, watch, threads>>
    /\ UNCHANGED <<dataVars, loadVars, predRes>>

NextRegistry ==
    \/ RegistryCallReturns
    \/ \E c \in Countries, k \in Kinds, loadOk \in BOOLEAN, watchIt \in BOOLEAN :
          GetModel(c, k, loadOk, watchIt)
    \/ \E c \in Countries \cup {NoneArg}, k \in ClearKinds \cup {NoneArg} :
          ClearCache(c, k)
    \/ \E c \in Countries, k \in Kinds : HasModelCall(c, k)
    \/ \E c \in Countries, k \in Kinds \cup {NoneArg} : GetModelMetrics(c, k)

SpecRegistry == InitRegistry /\ [][NextRegistry]_vars

(***************************************************************************)
(* One resolution at a time: a get_data call or a get_model call          *)
(***************************************************************************)
\* after construction and discovery, with at most one adapter registered
InitResolution ==
    /\ \E ads \in {InitialAdapters} \cup
                   {SortAdapters(Append(InitialAdapters, Adapter(3, "custom", p))) :
                       p \in Priorities} : adapters = ads
    /\ dataRes = NoDataRes
    /\ \E fs \in PlainFileSystems :
          /\ registry = DiscoverRegistry(fs)
          /\ model_metadata = DiscoverMetadata(fs)
    /\ loaded_models = EmptyFn
    /\ regRes = NoRegRes
    /\ watch = NoWatch
    /\ threads = NoThreads
    /\ IdleLoad
    /\ IdlePredict

\* get_data returns: its caller takes the table
DataCallReturns ==
    /\ dataRes # NoDataRes
    /\ dataRes' = NoDataRes
    /\ UNCHANGED adapters
    /\ UNCHANGED <<regVars, loadVars, predRes>>

NextResolution ==
    \/ DataCallReturns
    \/ RegistryCallReturns
    \/ /\ dataRes = NoDataRes
       /\ regRes = NoRegRes
       /\ \E canH \in [AdapterIds(adapters) -> BOOLEAN],
             loadOk \in [AdapterIds(adapters) -> BOOLEAN] :
             /\ \A id \in AdapterIds(adapters) : ~canH[id] => loadOk[id]
             /\ GetData(canH, loadOk)
    \/ /\ dataRes = NoDataRes
       /\ \E c \in Countries, k \in Kinds, loadOk \in BOOLEAN :
             GetModel(c, k, loadOk, FALSE)

SpecResolution == InitResolution /\ [][NextResolution]_vars

(***************************************************************************)
(* ModelRegistry.get_model entered by two threads for the same             *)
(* registered (country, kind), statement by statement                      *)
(***************************************************************************)
\* mutant: the whole cache is rebound to hold only the new country
SlotResetDropsCache(cache, c) == [x \in {c} |-> EmptyFn]

\* self.loaded_models[country] = {}
SlotReset(cache, c) ==
    [x \in DOMAIN cache \cup {c} |-> IF x = c THEN EmptyFn ELSE cache[x]]

\* the identity of the object thread t unpickles: different from the cached
\* ones and from the one the other thread holds
ThreadFreshId(cache, ths, t) ==
    LET live == LiveIds(cache, NoWatch) \cup {ths[u].model.id : u \in Threads \ {t}}
    IN  CHOOSE n \in 1..(Cardinality(live) + 1) :
            /\ n \notin live
            /\ \A m \in 1..(n - 1) : m \in live

\* the registered (country, kind) pairs
RegisteredKeys(reg) ==
    UNION {{<<x, y>> : y \in DOMAIN reg[x]} : x \in DOMAIN reg}

\* after discovery, with nothing cached or one registered artifact cached
InitConcurrent ==
    /\ IdleData
    /\ IdleLoad
    /\ IdlePredict
    /\ \E fs \in PlainFileSystems :
          /\ registry = DiscoverRegistry(fs)
          /\ model_metadata = DiscoverMetadata(fs)
          /\ \/ loaded_models = EmptyFn
             \/ \E e \in RegisteredKeys(DiscoverRegistry(fs)) :
                   loaded_models =
                       CachePut(EmptyFn, e[1], e[2],
                                Artifact(DiscoverRegistry(fs)[e[1]][e[2]], 1))
    /\ regRes = NoRegRes
    /\ watch = NoWatch
    /\ threads = NoThreads

\* both threads call get_model(c, k); loadOk says whether the file of the
\* artifact can be read and unpickled (the storage does not change)
BeginGetModel(c, k, loadOk) ==
    /\ \A t \in Threads : threads[t].pc = "idle"
    /\ HasModel(registry, c, k)
    /\ ~IsLoaded(loaded_models, c, k)
    /\ threads' = [t \in Threads |->
                      [NoThread EXCEPT !.pc = "cache", !.c = c, !.k = k,
                                       !.loadOk = loadOk, !.before = loaded_models]]
    /\ UNCHANGED <<registry, loaded_models, model_metadata, regRes, watch>>
    /\ UNCHANGED <<dataVars, loadVars, predRes>>

\* if country in self.loaded_models and model_type in self.loaded_models[country]:
\*     return self.loaded_models[country][model_type]
CacheTest(t) ==
    /\ threads[t].pc = "cache"
    /\ threads' = [threads EXCEPT ![t] =
          IF IsLoaded(loaded_models, threads[t].c, threads[t].k)
          THEN [@ EXCEPT !.pc = "done",
                         !.result = loaded_models[threads[t].c][threads[t].k]]
          ELSE [@ EXCEPT !.pc = "registry"]]
    /\ UNCHANGED <<registry, loaded_models, model_metadata, regRes, watch>>
    /\ UNCHANGED <<dataVars, loadVars, predRes>>

\* if self.has_model(country, model_type): (the fallback branches are not
\* entered: the kind is registered)
RegistryTest(t) ==
    /\ threads[t].pc = "registry"
    /\ HasModel(registry, threads[t].c, threads[t].k)
    /\ threads' = [threads EXCEPT ![t].pc = "load"]
    /\ UNCHANGED <<registry, loaded_models, model_metadata, regRes, watch>>
    /\ UNCHANGED <<dataVars, loadVars, predRes>>

\* model = self._load_model(model_path, model_type)
LoadModel(t) ==
    /\ threads[t].pc = "load"
    /\ threads' = [threads EXCEPT ![t] =
          IF threads[t].loadOk
          THEN [@ EXCEPT !.pc = "country",
                         !.model = Artifact(registry[threads[t].c][threads[t].k],
                                            ThreadFreshId(loaded_models, threads, t))]
          ELSE [@ EXCEPT !.pc = "raised"]]
    /\ UNCHANGED <<registry, loaded_models, model_metadata, regRes, watch>>
    /\ UNCHANGED <<dataVars, loadVars, predRes>>

\* if country not in self.loaded_models:
CountryTest(t) ==
    /\ threads[t].pc = "country"
    /\ threads' = [threads EXCEPT ![t].pc =
          IF threads[t].c \notin DOMAIN loaded_models THEN "slot" ELSE "store"]
    /\ UNCHANGED <<registry, loaded_models, model_metadata, regRes, watch>>
    /\ UNCHANGED <<dataVars, loadVars, predRes>>

\*     self.loaded_models[country] = {}
ResetSlot(t) ==
    /\ threads[t].pc = "slot"
    /\ loaded_models' = SlotReset(loaded_models, threads[t].c)
    /\ threads' = [threads EXCEPT ![t].pc = "store"]
    /\ UNCHANGED <<registry, model_metadata, regRes, watch>>
    /\ UNCHANGED <<dataVars, loadVars, predRes>>

\* self.loaded_models[country][model_type] = model; return model
StoreModel(t) ==
    /\ threads[t].pc = "store"
    /\ loaded_models' = CachePut(loaded_models, threads[t].c, threads[t].k,
                                 threads[t].model)
    /\ threads' = [threads EXCEPT ![t].pc = "done", ![t].result = threads[t].model]
    /\ UNCHANGED <<registry, model_metadata, regRes, watch>>
    /\ UNCHANGED <<dataVars, loadVars, predRes>>

NextConcurrent ==
    \/ \E c \in Countries, k \in DiskKinds, loadOk \in BOOLEAN :
          BeginGetModel(c, k, loadOk)
    \/ \E t \in Threads : CacheTest(t)
    \/ \E t \in Threads : RegistryTest(t)
    \/ \E t \in Threads : LoadModel(t)
    \/ \E t \in Threads : CountryTest(t)
    \/ \E t \in Threads : ResetSlot(t)
    \/ \E t \in Threads : StoreModel(t)

SpecConcurrent == InitConcurrent /\ [][NextConcurrent]_vars

(***************************************************************************)
(* ModelRegistry: discovery of a models directory and the metadata queries *)
(***************************************************************************)
InitDiscovery ==
    /\ IdleData
    /\ IdleLoad
    /\ IdlePredict
    /\ \E fs \in ModelsDirectories :
          /\ registry = DiscoverRegistry(fs)
          /\ model_metadata = DiscoverMetadata(fs)
    /\ loaded_models = EmptyFn
    /\ regRes = NoRegRes
    /\ watch = NoWatch
    /\ threads = NoThreads

NextDiscovery ==
    \/ RegistryCallReturns
    \/ \E c \in Countries, k \in MetadataKinds \cup {NoneArg} : GetModelMetrics(c, k)
    \/ \E c \in Countries : GetAvailableModelTypes(c)

SpecDiscovery == InitDiscovery /\ [][NextDiscovery]_vars

(***************************************************************************)
(* Specification of the adapters' load_data                                *)
(***************************************************************************)
InitLoad ==
    /\ IdleData
    /\ IdleRegistry
    /\ IdlePredict
    /\ \E cols \in SUBSET (CaseColumns \cup DeathColumns), ks \in KeySeqs :
          \E xs \in [DOMAIN ks -> ValuesFor(cols \cap CaseColumns, CaseValues)],
             ys \in [DOMAIN ks -> ValuesFor(cols \cap DeathColumns, DeathValues)] :
             stored = Table(cols, ks, xs, ys)
    /\ loadRes = NoLoadRes

LoadResOf(name, ctx, r) ==
    [adapter |-> name, ctx |-> ctx, outcome |-> r.outcome, why |-> r.why,
     derived |-> r.derived, table |-> r.table, storage |-> TRUE]

\* RawDataAdapter.load_data(context)
RawLoad(ctx) ==
    /\ loadRes = NoLoadRes
    /\ loadRes' = LoadResOf("raw_data", ctx, RawLoadData(stored, ctx))
    /\ UNCHANGED stored
    /\ UNCHANGED <<dataVars, regVars, predRes>>

\* EnhancedDataAdapter.load_data(context)
EnhancedLoad(ctx, order) ==
    /\ loadRes = NoLoadRes
    /\ order \in Orders(AvailableCountries(stored))
    /\ loadRes' = LoadResOf("enhanced_data", ctx, EnhancedLoadData(stored, ctx, order))
    /\ UNCHANGED stored
    /\ UNCHANGED <<dataVars, regVars, predRes>>

\* the call returns: its caller takes the table
LoadCallReturns ==
    /\ loadRes # NoLoadRes
    /\ loadRes' = NoLoadRes
    /\ UNCHANGED stored
    /\ UNCHANGED <<dataVars, regVars, predRes>>

NextLoad ==
    \/ LoadCallReturns
    \/ \E ctx \in Contexts : RawLoad(ctx)
    \/ \E ctx \in Contexts, order \in AllOrders : EnhancedLoad(ctx, order)

SpecLoad == InitLoad /\ [][NextLoad]_vars

(***************************************************************************)
(* RawDataAdapter / EnhancedDataAdapter: can_handle                        *)
(***************************************************************************)
InitCanHandle ==
    /\ IdleData
    /\ IdleRegistry
    /\ IdlePredict
    /\ \E ks \in KeySeqs :
          stored = Table({"total_cases"}, ks, [i \in DOMAIN ks |-> 0],
                         [i \in DOMAIN ks |-> 0])
    /\ loadRes = NoLoadRes

CanHandleResOf(name, present, ctx, answer) ==
    [NoLoadRes EXCEPT !.adapter = name, !.ctx = ctx, !.storage = present,
                      !.outcome = IF answer THEN "true" ELSE "false",
                      !.why = "can_handle"]

\* RawDataAdapter.can_handle(context): the countries are read from the data
\* file when none is known yet
RawCanHandle(present, ctx) ==
    /\ loadRes = NoLoadRes
    /\ loadRes' = CanHandleResOf("raw_data", present, ctx,
                      AdapterCanHandle(present, AvailableCountries(stored), ctx))
    /\ UNCHANGED stored
    /\ UNCHANGED <<dataVars, regVars, predRes>>

\* EnhancedDataAdapter.can_handle(context): the countries are those of the
\* files found when the adapter was made
EnhancedCanHandle(present, ctx) ==
    /\ loadRes = NoLoadRes
    /\ loadRes' = CanHandleResOf("enhanced_data", present, ctx,
                      AdapterCanHandle(present, AvailableCountries(stored), ctx))
    /\ UNCHANGED stored
    /\ UNCHANGED <<dataVars, regVars, predRes>>

NextCanHandle ==
    \/ LoadCallReturns
    \/ \E present \in BOOLEAN, ctx \in CanHandleContexts : RawCanHandle(present, ctx)
    \/ \E present \in BOOLEAN, ctx \in CanHandleContexts : EnhancedCanHandle(present, ctx)

SpecCanHandle == InitCanHandle /\ [][NextCanHandle]_vars

(***************************************************************************)
(* Specification of the COVIDPredictor                                     *)
(***************************************************************************)
InitPredict ==
    /\ IdleData
    /\ \E fs \in PredictFileSystems :
          /\ registry = DiscoverRegistry(fs)
          /\ model_metadata = DiscoverMetadata(fs)
    /\ loaded_models = EmptyFn
    /\ regRes = NoRegRes
    /\ watch = NoWatch
    /\ threads = NoThreads
    /\ \E ks \in PredictKeySeqs :
          \E xs \in [DOMAIN ks -> CaseValues] :
             stored = Table({"total_cases"}, ks, xs, [i \in DOMAIN ks |-> 0])
    /\ loadRes = NoLoadRes
    /\ predRes = NoPredRes

\* the response r of predict is handed out, the artifact cache as predict left it
PredictResponds(c, days, kind, enh, loadOk, b, r) ==
    /\ r.outcome # "ok" => b = [NoBehaviour EXCEPT !.outs = AllRaise(days)]
    /\ loaded_models' = r.cache
    /\ predRes' = [op |-> "predict", c |-> c, days |-> days, kind |-> kind,
                   enh |-> enh, loadOk |-> loadOk, b |-> b,
                   outcome |-> r.outcome, why |-> r.why,
                   model_used |-> r.model_used, resolved |-> r.resolved,
                   path |-> r.path, predictions |-> r.predictions,
                   metrics |-> r.metrics, data |-> r.data,
                   status |-> 0, events |-> <<>>, countries |-> <<>>]

\* COVIDPredictor.predict(country, days, model_type, use_enhanced)
Predict(c, days, kind, enh, loadOk, b) ==
    /\ predRes = NoPredRes
    \* inputs the call does not consult are not varied
    /\ ~enh => b.shape = "plain"
    /\ EffectiveModelType(registry, c, kind, enh) # kind => kind = "gradient_boosting"
    /\ ~loadOk => LoadAttempted(registry, loaded_models, c,
                                EffectiveModelType(registry, c, kind, enh))
    /\ PredictResponds(c, days, kind, enh, loadOk, b,
                       PredictOutcome(registry, model_metadata, loaded_models,
                                      adapters, stored, c, days, kind, enh, loadOk,
                                      b, FreshId(loaded_models, watch)))
    /\ UNCHANGED <<registry, model_metadata, regRes, watch, threads>>
    /\ UNCHANGED <<dataVars, loadVars>>

\* the call returns: its caller takes the response
PredictCallReturns ==
    /\ predRes # NoPredRes
    /\ predRes' = NoPredRes
    /\ UNCHANGED <<dataVars, regVars, loadVars>>

NextPredict ==
    \/ PredictCallReturns
    \/ \E c \in Countries, days \in 1..MaxDays, kind \in RequestKinds,
          enh \in BOOLEAN, loadOk \in BOOLEAN :
          \E b \in Behaviours(days) : Predict(c, days, kind, enh, loadOk, b)

SpecPredict == InitPredict /\ [][NextPredict]_vars

(***************************************************************************)
(* routes/api.py: the forecast and the history endpoints                   *)
(***************************************************************************)
\* the response of predict_cases to what predict did (r): the result of
\* predict, or HTTPException with the cause in its detail
PredictCasesResponds(c, days, kind, enh, loadOk, r) ==
    /\ loaded_models' = r.cache
    /\ predRes' = [NoPredRes EXCEPT
                      !.op = "predict_cases", !.c = c, !.days = days,
                      !.kind = kind, !.enh = enh, !.loadOk = loadOk,
                      !.outcome = IF r.outcome = "ok" THEN "ok" ELSE "HTTPException",
                      !.why = r.why, !.model_used = r.model_used,
                      !.predictions = r.predictions, !.metrics = r.metrics,
                      !.status = PredictCasesStatus(r.outcome)]

\* GET /predict/{country}
PredictCases(c, days, kind, enh, loadOk, b) ==
    /\ predRes = NoPredRes
    \* inputs the call does not consult are not varied
    /\ ~enh => b.shape = "plain"
    /\ EffectiveModelType(registry, c, kind, enh) # kind => kind = "gradient_boosting"
    /\ ~loadOk => LoadAttempted(registry, loaded_models, c,
                                EffectiveModelType(registry, c, kind, enh))
    /\ PredictOutcome(registry, model_metadata, loaded_models, adapters, stored,
                      c, days, kind, enh, loadOk, b,
                      FreshId(loaded_models, watch)).outcome # "ok"
          => b = [NoBehaviour EXCEPT !.outs = AllRaise(days)]
    /\ PredictCasesResponds(c, days, kind, enh, loadOk,
                            PredictOutcome(registry, model_metadata, loaded_models,
                                           adapters, stored, c, days, kind, enh,
                                           loadOk, b, FreshId(loaded_models, watch)))
    /\ UNCHANGED <<registry, model_metadata, regRes, watch, threads>>
    /\ UNCHANGED <<dataVars, loadVars>>

\* GET /historical/{country}, no window and no metrics given
HistoricalData(c) ==
    /\ predRes = NoPredRes
    /\ predRes' = [NoPredRes EXCEPT
                      !.op = "get_historical_data", !.c = c,
                      !.outcome = IF GetHistoricalData(adapters, stored, c).outcome = "ok"
                                  THEN "ok" ELSE "HTTPException",
                      !.why = IF GetHistoricalData(adapters, stored, c).outcome = "ok"
                              THEN "" ELSE GetHistoricalData(adapters, stored, c).outcome,
                      !.data = GetHistoricalData(adapters, stored, c).table,
                      !.status = HistoricalDataStatus(
                                     GetHistoricalData(adapters, stored, c).outcome)]
    /\ UNCHANGED <<registry, loaded_models, model_metadata, regRes, watch, threads>>
    /\ UNCHANGED <<dataVars, loadVars>>

\* the response of the countries endpoint to what the data manager found (m)
CountriesResponse(m) ==
    [NoPredRes EXCEPT
        !.op = "get_available_countries", !.outcome = "ok", !.status = 200,
        !.countries = CountryInfos(registry, SortedCountries(m.countries),
                                   1, <<>>, <<>>).infos,
        !.events = m.events \o CountryInfos(registry, SortedCountries(m.countries),
                                            1, <<>>, <<>>).events]

\* GET /countries
GetAvailableCountries ==
    /\ predRes = NoPredRes
    /\ predRes' = CountriesResponse(
                      ManagerAvailableCountries(adapters, 1, stored, {}, <<>>))
    /\ UNCHANGED <<registry, loaded_models, model_metadata, regRes, watch, threads>>
    /\ UNCHANGED <<dataVars, loadVars>>

NextApi ==
    \/ PredictCallReturns
    \/ GetAvailableCountries
    \/ \E c \in Countries, days \in 1..MaxDays, kind \in RequestKinds,
          enh \in BOOLEAN, loadOk \in BOOLEAN :
          \E b \in Behaviours(days) : PredictCases(c, days, kind, enh, loadOk, b)
    \/ \E c \in Countries : HistoricalData(c)

SpecApi == InitPredict /\ [][NextApi]_vars

(***************************************************************************)
(* Claims about DataAccessManager.get_data (checked under SpecData)        *)
(***************************************************************************)
PosOf(ads, id) == CHOOSE i \in 1..Len(ads) : ads[i].id = id

Called(r, what, id) == \E i \in 1..Len(r.calls) : r.calls[i] = <<what, id>>

TimesCalled(r, what, id) ==
    Cardinality({i \in 1..Len(r.calls) : r.calls[i] = <<what, id>>})

Usable(r, id) == r.canH[id] /\ r.loadOk[id]

IdsOfSeq(s) == [i \in 1..Len(s) |-> s[i].id]

\* the adapters whose load_data raised for the call's context, in list order
FailedInOrder(r) ==
    LET Failed(a) == r.canH[a.id] /\ ~r.loadOk[a.id]
    IN  IdsOfSeq(SelectSeq(r.ads, Failed))

\* C1: a successful get_data returns the table of exactly one adapter, the
\* highest-priority one whose can_handle is true and whose load_data does not
\* raise; every adapter before it that could handle the context was tried and
\* raised; no adapter after it has its load_data invoked.
C1_HighestPriorityUsableWins ==
    dataRes.outcome = "ok" =>
        LET ads == dataRes.ads
            s   == dataRes.source
        IN  /\ s \in AdapterIds(ads)
            /\ Usable(dataRes, s)
            /\ \A i \in 1..Len(ads) :
                   Usable(dataRes, ads[i].id)
                       => ads[i].priority <= ads[PosOf(ads, s)].priority
            /\ \A i \in 1..Len(ads) :
                   /\ (i < PosOf(ads, s) /\ dataRes.canH[ads[i].id])
                          => /\ ~dataRes.loadOk[ads[i].id]
                             /\ TimesCalled(dataRes, "load_data", ads[i].id) = 1
                   /\ i > PosOf(ads, s)
                          => /\ ~Called(dataRes, "load_data", ads[i].id)
                             /\ ~Called(dataRes, "can_handle", ads[i].id)
            /\ TimesCalled(dataRes, "load_data", s) = 1
            /\ dataRes.calls[Len(dataRes.calls)] = <<"load_data", s>>

\* a higher-priority adapter raised, the middle one answered, and a usable
\* lower-priority adapter was left alone
C1_Witness ==
    /\ dataRes.outcome = "ok"
    /\ Len(dataRes.ads) = 3
    /\ PosOf(dataRes.ads, dataRes.source) = 2
    /\ dataRes.canH[dataRes.ads[1].id] /\ ~dataRes.loadOk[dataRes.ads[1].id]
    /\ Usable(dataRes, dataRes.ads[3].id)

\* C2: get_data raises DataNotFoundError exactly when every adapter rejects
\* the context or raises from load_data; the details then list the adapters
\* whose load_data raised, once each, in descending priority order; get_data
\* ends in no other way than a table or DataNotFoundError.
C2_DataNotFoundIffNoneUsable ==
    dataRes.outcome # "none" =>
        /\ dataRes.outcome \in {"ok", "DataNotFoundError"}
        /\ (dataRes.outcome = "DataNotFoundError")
               <=> (\A id \in AdapterIds(dataRes.ads) : ~Usable(dataRes, id))
        /\ dataRes.outcome = "DataNotFoundError" =>
               /\ dataRes.details = FailedInOrder(dataRes)
               /\ \A i, j \in 1..Len(dataRes.details) :
                      i < j =>
                          dataRes.ads[PosOf(dataRes.ads, dataRes.details[i])].priority
                          >= dataRes.ads[PosOf(dataRes.ads, dataRes.details[j])].priority

\* two adapters raised and one rejected the context
C2_Witness ==
    /\ dataRes.outcome = "DataNotFoundError"
    /\ Len(dataRes.details) = 2
    /\ \E id \in AdapterIds(dataRes.ads) : ~dataRes.canH[id]
    /\ dataRes.ads[PosOf(dataRes.ads, dataRes.details[1])].priority
         > dataRes.ads[PosOf(dataRes.ads, dataRes.details[2])].priority

\* C3: when no adapter's can_handle is true for the context, get_data raises
\* DataNotFoundError with an empty details list and calls no load_data.
C3_NoHandlerGivesEmptyDetails ==
    (/\ dataRes.outcome # "none"
     /\ \A id \in AdapterIds(dataRes.ads) : ~dataRes.canH[id])
        => /\ dataRes.outcome = "DataNotFoundError"
           /\ dataRes.details = <<>>
           /\ \A id \in AdapterIds(dataRes.ads) : ~Called(dataRes, "load_data", id)
           /\ \A id \in AdapterIds(dataRes.ads) :
                  TimesCalled(dataRes, "can_handle", id) = 1

\* three adapters all reject a context that one of them could have loaded
C3_Witness ==
    /\ dataRes.outcome = "DataNotFoundError"
    /\ Len(dataRes.ads) = 3
    /\ \A id \in AdapterIds(dataRes.ads) : ~dataRes.canH[id]
    /\ \E id \in AdapterIds(dataRes.ads) : dataRes.loadOk[id]

(***************************************************************************)
(* Claims about ModelRegistry.get_model (checked under SpecRegistry)       *)
(***************************************************************************)
\* positions of the registered kinds in the alternatives of the requested kind
RegisteredAlts(c, k) ==
    {i \in 1..Len(AlternativeModelTypes(k)) :
        c \in DOMAIN registry /\ AlternativeModelTypes(k)[i] \in DOMAIN registry[c]}

\* the kind an unregistered (c, k) stands for: its first registered
\* alternative, else "default" if registered, else none
ExpectedKind(c, k) ==
    IF RegisteredAlts(c, k) # {}
    THEN AlternativeModelTypes(k)[CHOOSE i \in RegisteredAlts(c, k) :
                                     \A j \in RegisteredAlts(c, k) : i <= j]
    ELSE IF c \in DOMAIN registry /\ "default" \in DOMAIN registry[c]
    THEN "default"
    ELSE NoneArg

UnregisteredRequest ==
    /\ regRes.op = "get_model"
    /\ ~(regRes.c \in DOMAIN registry /\ regRes.k \in DOMAIN registry[regRes.c])

\* C4 as stated: for an unregistered (country, kind), get_model returns the
\* artifact of the first registered kind of the alternative list, and raises
\* ModelNotFoundError only when no alternative and no "default" is registered.
C4_RaisesOnlyWhenNothingRegistered ==
    UnregisteredRequest =>
        /\ regRes.outcome = "ok" =>
               /\ ExpectedKind(regRes.c, regRes.k) # NoneArg
               /\ regRes.artifact.path = <<regRes.c, ExpectedKind(regRes.c, regRes.k)>>
        /\ regRes.outcome = "ModelNotFoundError" =>
               ExpectedKind(regRes.c, regRes.k) = NoneArg

\* C4 amended: for an unregistered (country, kind), get_model resolves to the
\* first registered kind of the alternative list (else to "default"); it
\* returns that artifact, and raises ModelNotFoundError only when nothing is
\* registered or when loading that one artifact fails (no further kind is
\* then tried).
C4_FirstRegisteredAlternative ==
    UnregisteredRequest =>
        /\ regRes.outcome \in {"ok", "ModelNotFoundError"}
        /\ regRes.outcome = "ok" =>
               /\ ExpectedKind(regRes.c, regRes.k) # NoneArg
               /\ regRes.artifact.path = <<regRes.c, ExpectedKind(regRes.c, regRes.k)>>
        /\ regRes.outcome = "ModelNotFoundError" =>
               \/ /\ ExpectedKind(regRes.c, regRes.k) = NoneArg
                  /\ regRes.why = "model_not_found"
                  /\ regRes.loads = <<>>
               \/ /\ ExpectedKind(regRes.c, regRes.k) # NoneArg
                  /\ regRes.why = "model_loading_error"
                  /\ regRes.loads = << <<regRes.c, ExpectedKind(regRes.c, regRes.k)>> >>
        /\ ExpectedKind(regRes.c, regRes.k) = NoneArg
               => regRes.outcome = "ModelNotFoundError"

\* "xgboost" is requested where random_forest and lstm are registered and
\* gradient_boosting is not: the random_forest artifact is returned
C4_Witness ==
    /\ UnregisteredRequest
    /\ regRes.k = "xgboost"
    /\ regRes.outcome = "ok"
    /\ regRes.artifact.path = <<regRes.c, "random_forest">>
    /\ "lstm" \in DOMAIN registry[regRes.c]
    /\ "gradient_boosting" \notin DOMAIN registry[regRes.c]

\* C5: once get_model(c, k) has succeeded, every later get_model(c, k) with no
\* clear_cache in between succeeds with the identical object and reads
\* nothing from storage, whether k is registered or was resolved through an
\* alternative or "default".
C5_SecondCallReturnsSameInstance ==
    (regRes.op = "get_model" /\ regRes.prev # NoArtifact) =>
        /\ regRes.outcome = "ok"
        /\ regRes.artifact = regRes.prev
        /\ regRes.loads = <<>>

\* a kind resolved through an alternative is asked for again after another
\* country's artifact was loaded while the first object was alive
C5_Witness ==
    /\ regRes.op = "get_model"
    /\ regRes.prev # NoArtifact
    /\ regRes.outcome = "ok"
    /\ regRes.depth = 1
    /\ regRes.artifact.path[2] # regRes.k
    /\ \E c \in DOMAIN loaded_models : \E k \in DOMAIN loaded_models[c] :
          /\ c # regRes.c
          /\ loaded_models[c][k].id > regRes.prev.id

(***************************************************************************)
(* Claims about the adapters' load_data (checked under SpecLoad)           *)
(***************************************************************************)
\* the derivation of new from total took place in the last call
DerivedByDiff(new, total) ==
    /\ loadRes.outcome = "ok"
    /\ new \notin stored.cols
    /\ total \in stored.cols

\* new_deaths was computed by a first difference in the last call (of the
\* stored total_deaths, or of the total_deaths estimated from total_cases)
NewDeathsDerived ==
    /\ loadRes.outcome = "ok"
    /\ "new_deaths" \notin stored.cols
    /\ "new_deaths" \in loadRes.table.cols

\* C9: every new_cases and new_deaths value an adapter derives by first
\* difference is >= 0 in the table load_data returns, also when the totals
\* decrease between consecutive dates of a country.
C9_DerivedDifferencesNeverNegative ==
    \A i \in DOMAIN loadRes.table.rows :
        /\ DerivedByDiff("new_cases", "total_cases")
              => loadRes.table.rows[i].new_cases >= 0
        /\ NewDeathsDerived => loadRes.table.rows[i].new_deaths >= 0

\* the stored total of the earliest date on record of country c
FirstKnownTotal(c) ==
    LET own == {r \in Range(stored.rows) : r.country = c}
    IN  (CHOOSE r \in own : \A q \in own : r.date_value <= q.date_value).total_cases

RECURSIVE SumNewCases(_, _, _, _)
\* sum of new_cases over the first n rows that are of country c and dated <= d
SumNewCases(rows, c, d, n) ==
    IF n = 0 THEN 0
    ELSE SumNewCases(rows, c, d, n - 1)
         + (IF rows[n].country = c /\ rows[n].date_value <= d
            THEN rows[n].new_cases ELSE 0)

\* C10: when the stored table has total_cases and no new_cases, load_data
\* derives new_cases so that, for every country and date, the first known
\* total of the country plus the sum of its derived new_cases up to that date
\* is the stored total_cases of that date; other countries' rows contribute
\* nothing, and the table returned is made of these derived rows.
C10_DerivedNewCasesReconstructTotals ==
    DerivedByDiff("new_cases", "total_cases") =>
        /\ \A i \in DOMAIN loadRes.derived.rows :
              LET r == loadRes.derived.rows[i]
              IN  /\ \E q \in Range(stored.rows) :
                        /\ q.country = r.country
                        /\ q.date_value = r.date_value
                        /\ q.total_cases = r.total_cases
                  /\ r.total_cases =
                        FirstKnownTotal(r.country)
                        + SumNewCases(loadRes.derived.rows, r.country, r.date_value,
                                      Len(loadRes.derived.rows))
        /\ Range(loadRes.table.rows) \subseteq Range(loadRes.derived.rows)
        /\ loadRes.ctx.start_date = NoDate => loadRes.table = loadRes.derived

\* C10 witness: a table stored out of date order, the rows of France around
\* the row of Testland, loaded whole, with a non-zero derived difference
C10_Witness ==
    /\ DerivedByDiff("new_cases", "total_cases")
    /\ loadRes.ctx.countries = <<>>
    /\ loadRes.ctx.start_date = NoDate
    /\ Len(stored.rows) = 3
    /\ stored.rows[1].country = "France"
    /\ stored.rows[2].country = "Testland"
    /\ stored.rows[3].country = "France"
    /\ stored.rows[3].date_value < stored.rows[1].date_value
    /\ Len(loadRes.table.rows) = 3
    /\ \E i \in DOMAIN loadRes.table.rows : loadRes.table.rows[i].new_cases > 0

(***************************************************************************)
(* Claims about COVIDPredictor.predict (checked under SpecPredict)         *)
(***************************************************************************)
\* the latest date on record of country c
LatestHistoricalDate(c) ==
    LET days == {r.date_value : r \in {q \in Range(stored.rows) : q.country = c}}
    IN  CHOOSE d \in days : \A e \in days : e <= d

\* C6: every successful predict(country, days = N, kind, use_enhanced), on
\* the standard and on the enhanced path alike, returns exactly N entries,
\* dated with the N consecutive days that follow the latest historical date
\* of the country.
C6_ForecastHasNConsecutiveDates ==
    predRes.outcome = "ok" =>
        /\ Len(predRes.predictions) = predRes.days
        /\ \A i \in DOMAIN predRes.predictions :
              predRes.predictions[i].date = LatestHistoricalDate(predRes.c) + i

\* C7: on the standard path, whatever the days on which the model call
\* raises, the forecast has exactly `days` entries, the entry of a failing day
\* is flagged estimation and has a new_cases >= 0, and the entry of any other
\* day is not flagged.
C7_FailingDaysBecomeFlaggedEstimates ==
    (predRes.outcome = "ok" /\ predRes.path \in {"standard", "fallback"}) =>
        /\ Len(predRes.predictions) = predRes.days
        /\ \A i \in DOMAIN predRes.predictions \cap DOMAIN predRes.b.outs :
              IF predRes.b.outs[i].raise
              THEN /\ predRes.predictions[i].estimation
                   /\ predRes.predictions[i].new_cases >= 0
              ELSE ~predRes.predictions[i].estimation

\* C8: predict with use_enhanced for a country outside the enhanced-capable
\* set, its (country, kind) registered and loadable and its history on
\* record, returns a response whose model_used is the requested kind, made
\* with the artifact registered for that kind.
C8_EnhancedRequestDegradesToPlainKind ==
    ( /\ predRes.op = "predict"
      /\ predRes.enh
      /\ predRes.c \notin EnhancedCountries(registry)
      /\ HasModel(registry, predRes.c, predRes.kind)
      /\ predRes.loadOk
      /\ predRes.c \in AvailableCountries(stored) ) =>
        /\ predRes.outcome = "ok"
        /\ predRes.model_used = predRes.kind
        /\ predRes.resolved.path = ModelPath(predRes.c, predRes.kind)

\* C11: predict raises PredictionError only when preparing the features
\* failed; a model that cannot be resolved is not reported as PredictionError
\* and a failing model call on a day never makes predict raise
C11_PredictionErrorOnlyFromPreparation ==
    (predRes.op = "predict" /\ predRes.outcome = "PredictionError")
        => predRes.why = "data_preparation_error"

\* C12: when the kind predict asks for is not registered and get_model
\* resolves to an alternative (or to "default"), predict succeeds and the
\* metrics of the response are the metadata metrics of the artifact that was
\* resolved and used (taken here with that artifact's metadata on record, its
\* history present and its file loadable)
C12_FallbackResponseCarriesResolvedMetrics ==
    ( /\ predRes.op = "predict"
      /\ ~HasModel(registry, predRes.c, predRes.model_used)
      /\ ExpectedKind(predRes.c, predRes.model_used) # NoneArg
      /\ ExpectedKind(predRes.c, predRes.model_used)
            \in DOMAIN model_metadata[predRes.c]
      /\ predRes.loadOk
      /\ predRes.c \in AvailableCountries(stored) ) =>
        /\ predRes.outcome = "ok"
        /\ predRes.metrics =
              model_metadata[predRes.c][ExpectedKind(predRes.c, predRes.model_used)].metrics

\* C13: in every state reached by get_model and clear_cache calls after
\* discovery, every (country, kind) key of the cache is a registry entry and
\* the cached artifact is the one loaded from the location registered under
\* that key; an artifact resolved through fallback is cached under the
\* alternative kind, never under the kind that was asked for
C13_CacheAgreesWithRegistry ==
    /\ \A c \in DOMAIN loaded_models : \A k \in DOMAIN loaded_models[c] :
          /\ HasModel(registry, c, k)
          /\ loaded_models[c][k].path = registry[c][k]
    /\ (UnregisteredRequest /\ regRes.outcome = "ok") =>
          /\ ~IsLoaded(loaded_models, regRes.c, regRes.k)
          /\ IsLoaded(loaded_models, regRes.c, ExpectedKind(regRes.c, regRes.k))
          /\ loaded_models[regRes.c][ExpectedKind(regRes.c, regRes.k)] = regRes.artifact

C13_Witness ==
    /\ UnregisteredRequest
    /\ regRes.outcome = "ok"
    /\ regRes.loads # <<>>
    /\ IsLoaded(loaded_models, regRes.c, ExpectedKind(regRes.c, regRes.k))

\* the (country, kind) keys of a cache
CachedKeys(cache) ==
    UNION {{<<x, y>> : y \in DOMAIN cache[x]} : x \in DOMAIN cache}

\* the keys a clear_cache(c, k) call names: an argument left out names all
NamedByClear(c, k) ==
    {p \in Countries \X Kinds :
        (c = NoneArg \/ p[1] = c) /\ (k = NoneArg \/ p[2] = k)}

\* the cache after clear_cache holds what it held before, less what was named
ClearedExactlyTheNamed ==
    /\ regRes.outcome = "ok"
    /\ CachedKeys(loaded_models) =
          CachedKeys(regRes.before) \ NamedByClear(regRes.c, regRes.k)
    /\ \A p \in CachedKeys(loaded_models) :
          loaded_models[p[1]][p[2]] = regRes.before[p[1]][p[2]]

\* C14: clear_cache(country, kind) removes exactly that entry,
\* clear_cache(country) exactly that country's entries and clear_cache()
\* every entry; clearing what is not cached changes nothing and does not
\* raise; the registry and the metadata are left as they were, so a
\* following get_model of a cleared key reads the same location again
C14_ClearCacheRemovesExactlyTheNamed ==
    /\ []( ( /\ regRes.op = "clear_cache"
             /\ ~(regRes.c = NoneArg /\ regRes.k # NoneArg) ) =>
              /\ ClearedExactlyTheNamed
              /\ \A p \in NamedByClear(regRes.c, regRes.k) :
                    HasModel(registry, p[1], p[2]) =>
                       GetModelRec(registry, loaded_models, p[1], p[2], TRUE,
                                   FreshId(loaded_models, watch), <<>>, 0).loads
                          = <<registry[p[1]][p[2]]>> )
    /\ [][regRes'.op = "clear_cache" =>
             (registry' = registry /\ model_metadata' = model_metadata)]_vars

\* one kind of a country was cleared while another kind of it stays cached
C14_Witness ==
    /\ regRes.op = "clear_cache"
    /\ regRes.c # NoneArg
    /\ regRes.k # NoneArg
    /\ <<regRes.c, regRes.k>> \in CachedKeys(regRes.before)
    /\ IsLoaded(regRes.before, regRes.c, regRes.k)
    /\ \E y \in DOMAIN loaded_models[regRes.c] : y # regRes.k

\* C15: clear_cache with a kind and no country removes the cached artifacts
\* of that kind, for every country, and leaves the other kinds in place
C15_KindOnlyClearKeepsOtherKinds ==
    ( /\ regRes.op = "clear_cache"
      /\ regRes.c = NoneArg
      /\ regRes.k # NoneArg ) => ClearedExactlyTheNamed

\* every registered kind of country c has a metadata entry
MetadataComplete(c) ==
    \A k \in DOMAIN registry[c] :
        c \in DOMAIN model_metadata /\ k \in DOMAIN model_metadata[c]

\* C16: for every country of the registry (every country
\* get_available_model_types succeeds for), get_model_metrics(country)
\* returns the metadata of all its kinds and get_model_metrics(country, kind)
\* that of a registered kind; it fails with ModelNotFoundError exactly when
\* the country is unknown to the registry (taken here for countries whose
\* registered kinds all have their metadata entry)
C16_MetricsServedForEveryRegistryCountry ==
    regRes.op = "get_model_metrics" =>
        IF regRes.c \in DOMAIN registry
        THEN (MetadataComplete(regRes.c)
                /\ (regRes.k = NoneArg \/ regRes.k \in DOMAIN registry[regRes.c])) =>
                /\ AvailableModelTypes(registry, regRes.c).outcome = "ok"
                /\ regRes.outcome = "ok"
                /\ regRes.value = IF regRes.k = NoneArg
                                  THEN model_metadata[regRes.c]
                                  ELSE model_metadata[regRes.c][regRes.k]
        ELSE regRes.outcome = "ModelNotFoundError"

\* C17: after discovery every registered (country, kind) has a metadata
\* entry: from the metadata file beside the artifact, else from the
\* comparison table, otherwise a default entry with empty metrics
C17_EveryRegisteredKindHasMetadata ==
    \A c \in DOMAIN registry : \A k \in DOMAIN registry[c] :
        /\ c \in DOMAIN model_metadata
        /\ k \in DOMAIN model_metadata[c]
        /\ model_metadata[c][k].source \in {"json", "csv", "default"}
        /\ model_metadata[c][k].source = "default" => model_metadata[c][k].metrics = <<>>

\* C18: a typed failure keeps its class up to the HTTP boundary: a forecast
\* for a country with no artifact, no alternative and no default is answered
\* as ModelNotFound (404), a request no source can satisfy as DataNotFound
\* (404), and only a failure of feature preparation or of prediction as
\* PredictionError (500)
C18_TypedFailuresReachTheBoundary ==
    /\ ( /\ predRes.op = "predict_cases"
         /\ ~HasModel(registry, predRes.c, predRes.model_used)
         /\ ExpectedKind(predRes.c, predRes.model_used) = NoneArg ) =>
            predRes.status = 404
    /\ (predRes.op = "predict_cases" /\ predRes.status = 500) =>
            predRes.why = "data_preparation_error"
    /\ ( /\ predRes.op = "get_historical_data"
         /\ predRes.c \notin AvailableCountries(stored) ) =>
            predRes.status = 404

\* the countries a context asks for: the single country and the list
Requested(ctx) == ({ctx.country} \ {NoneArg}) \cup Range(ctx.countries)

CanHandleAnswered == loadRes.why = "can_handle"

\* C19 as stated: for both adapters can_handle answers false when the storage
\* location is absent, when the adapter knows no country, or when every
\* country asked for is unknown, and true in every other case, in
\* particular whenever one country asked for (the single country or a member
\* of the list) is known
C19_TrueWheneverARequestedCountryIsKnown ==
    CanHandleAnswered =>
        ( loadRes.outcome = "true" <=>
            ( /\ loadRes.storage
              /\ AvailableCountries(stored) # {}
              /\ Requested(loadRes.ctx) # {} =>
                    Requested(loadRes.ctx) \cap AvailableCountries(stored) # {} ) )

\* C19: for both adapters can_handle answers false when the storage location
\* is absent, when the adapter knows no country, when the single country of
\* the context is given and unknown, or when the list of countries is not
\* empty and none of its members is known; it answers true in every other case
C19_FalseWhenTheSingleCountryIsUnknown ==
    CanHandleAnswered =>
        ( loadRes.outcome = "true" <=>
            ( /\ loadRes.storage
              /\ AvailableCountries(stored) # {}
              /\ loadRes.ctx.country # NoneArg =>
                    loadRes.ctx.country \in AvailableCountries(stored)
              /\ loadRes.ctx.countries # <<>> =>
                    \E i \in DOMAIN loadRes.ctx.countries :
                        loadRes.ctx.countries[i] \in AvailableCountries(stored) ) )

\* a known member of the list beside an unknown single country: refused
C19_Witness ==
    /\ CanHandleAnswered
    /\ loadRes.storage
    /\ loadRes.ctx.country # NoneArg
    /\ loadRes.ctx.country \notin AvailableCountries(stored)
    /\ Range(loadRes.ctx.countries) \cap AvailableCountries(stored) # {}
    /\ loadRes.outcome = "false"

\* the location get_model went to: that of the artifact it returned, or the
\* one whose load failed
ResolvedPath ==
    IF regRes.outcome = "ok" THEN regRes.artifact.path
    ELSE IF regRes.loads # <<>> THEN regRes.loads[1]
    ELSE ModelPath("", "")

\* C20: get_model tries its steps in a fixed order: a cache hit for
\* (country, kind), then the registered (country, kind), then the
\* alternatives in table order, then "default"; "default" is resolved only
\* when neither the kind nor any alternative is registered, and a registered
\* alternative always wins over "default"
C20_StepsTriedInFixedOrder ==
    regRes.op = "get_model" =>
        IF IsLoaded(regRes.before, regRes.c, regRes.k)
        THEN /\ regRes.outcome = "ok"
             /\ regRes.artifact = regRes.before[regRes.c][regRes.k]
             /\ regRes.loads = <<>>
             /\ regRes.depth = 0
        ELSE IF HasModel(registry, regRes.c, regRes.k)
        THEN /\ regRes.loads = <<registry[regRes.c][regRes.k]>>
             /\ ResolvedPath = registry[regRes.c][regRes.k]
             /\ regRes.depth = 0
        ELSE IF RegisteredAlts(regRes.c, regRes.k) # {}
        THEN /\ ResolvedPath = registry[regRes.c][ExpectedKind(regRes.c, regRes.k)]
             /\ ExpectedKind(regRes.c, regRes.k) # "default"
             /\ regRes.depth = 1
        ELSE IF HasModel(registry, regRes.c, "default")
        THEN /\ ResolvedPath = registry[regRes.c]["default"]
             /\ regRes.depth = 1
        ELSE /\ regRes.outcome = "ModelNotFoundError"
             /\ regRes.why = "model_not_found"
             /\ regRes.loads = <<>>

\* an alternative and "default" are both registered, the kind asked for is
\* not: the alternative is returned
C20_Witness ==
    /\ UnregisteredRequest
    /\ RegisteredAlts(regRes.c, regRes.k) # {}
    /\ HasModel(registry, regRes.c, "default")
    /\ regRes.outcome = "ok"
    /\ regRes.artifact.path[2] # "default"
    /\ regRes.artifact.path[2] = ExpectedKind(regRes.c, regRes.k)

\* C21: for every context load_data of an adapter either raises
\* (DataValidationError for a missing required column, DataNotFoundError for
\* no data) or returns a table that is not empty and has every required
\* column; it never returns an empty table, also when the countries or the
\* date range of the context match no row
C21_LoadNeverReturnsEmptyTable ==
    (loadRes.adapter # "none" /\ loadRes.why # "can_handle") =>
        \/ loadRes.outcome \in {"DataValidationError", "DataNotFoundError"}
        \/ /\ loadRes.outcome = "ok"
           /\ loadRes.table.rows # <<>>
           /\ loadRes.ctx.required_columns \subseteq loadRes.table.cols

\* C22: the two adapters differ only in storage layout and priority: on the
\* same input rows their derivation step gives the same columns (new_cases,
\* total_cases, new_deaths, total_deaths) with the same values, also when
\* both death columns are absent and total_deaths is estimated from
\* total_cases
C22_BothAdaptersDeriveTheSame ==
    ( /\ loadRes.adapter = "raw_data"
      /\ loadRes.why # "can_handle"
      /\ loadRes.outcome = "ok"
      /\ loadRes.ctx.countries = <<>> ) =>
        /\ loadRes.derived = RawEnrichData(stored)
        /\ loadRes.derived = EnhancedEnrichData(stored)

\* C23: every exception that is caught and not raised again on the serving
\* path produces a log event before the fallback proceeds; checked here on
\* the countries endpoint, whose trace holds the adapter failures of
\* get_available_countries and the model-type lookup failures of the route
C23_EverySwallowedExceptionIsLogged ==
    predRes.op = "get_available_countries" =>
        \A i \in DOMAIN predRes.events :
            predRes.events[i].kind = "caught" =>
                /\ i < Len(predRes.events)
                /\ predRes.events[i + 1] = Logged(predRes.events[i].site)

\* the position in the adapter list of the adapter of the j-th call
CallPos(r, j) == PosOf(r.ads, r.calls[j][2])

\* C24: no operation is repeated within one resolution: during one get_data
\* call can_handle and load_data of each adapter are invoked at most once,
\* and during one get_model call at most one load from storage is attempted;
\* a failure moves to the next item or ends the call and never runs the
\* same item again
C24_NothingRepeatedWithinAResolution ==
    /\ \A id \in AdapterIds(dataRes.ads) :
          /\ TimesCalled(dataRes, "can_handle", id) <= 1
          /\ TimesCalled(dataRes, "load_data", id) <= 1
    /\ \A j \in 1..(Len(dataRes.calls) - 1) :
          \/ CallPos(dataRes, j) < CallPos(dataRes, j + 1)
          \/ /\ CallPos(dataRes, j) = CallPos(dataRes, j + 1)
             /\ dataRes.calls[j][1] = "can_handle"
             /\ dataRes.calls[j + 1][1] = "load_data"
    /\ regRes.op = "get_model" =>
          /\ Len(regRes.loads) <= 1
          /\ regRes.why = "model_loading_error" =>
                (regRes.outcome = "ModelNotFoundError" /\ Len(regRes.loads) = 1)

\* a load_data that failed, and the call went on to a later adapter
C24_Witness ==
    /\ dataRes.outcome = "ok"
    /\ FailedInOrder(dataRes) # <<>>
    /\ Len(dataRes.ads) = 3
    /\ Len(dataRes.calls) >= 4

\* the two get_model calls have both returned
BothReturned == \A t \in Threads : threads[t].pc = "done"

\* what the cache and the callers hold once both calls have returned
RaceOutcome ==
    LET c == threads[1].c
        k == threads[1].k
        before == threads[1].before
    IN  /\ \A t \in Threads : threads[t].result.path = registry[c][k]
        /\ IsLoaded(loaded_models, c, k)
        /\ loaded_models[c][k] \in {threads[t].result : t \in Threads}
        /\ \A p \in CachedKeys(loaded_models) \ {<<c, k>>} :
              /\ p \in CachedKeys(before)
              /\ loaded_models[p[1]][p[2]] = before[p[1]][p[2]]
        /\ CachedKeys(before) \subseteq CachedKeys(loaded_models)

\* C25 (as stated): two concurrent get_model(c, k) calls for a registered,
\* not yet cached (c, k) never raise, and once both have returned each holds an
\* artifact loaded from the registered location, the cache holds one entry for
\* (c, k) loaded from that location, and every other entry is as before
C25_ConcurrentCallsNeverRaise ==
    /\ \A t \in Threads : threads[t].pc # "raised"
    /\ BothReturned => RaceOutcome

\* C25 (amended): the same whenever the registered artifact can be loaded; when
\* it cannot, a call that reaches the load raises and the cache is left as it was
C25_RaceOnlyRepeatsTheLoad ==
    /\ \A t \in Threads :
          /\ threads[t].pc = "raised" => ~threads[t].loadOk
          /\ (threads[t].pc = "done" /\ threads[t].c # "") => threads[t].loadOk
    /\ BothReturned => RaceOutcome
    /\ (\E t \in Threads : ~threads[t].loadOk) =>
          loaded_models = threads[1].before

\* both calls returned, each with an object of its own: the load was repeated,
\* and another country's artifact was cached before the calls
C25_Witness ==
    /\ BothReturned
    /\ threads[1].result.id # threads[2].result.id
    /\ CachedKeys(threads[1].before) # {}
    /\ threads[1].c \notin DOMAIN threads[1].before

\* a predict call that tried the enhanced path and got an exception there: the
\* artifact has a sequence call that raises, or is recurrent and either the
\* history lacks a column the reshaping selects or its one call raises
EnhancedPathRaised ==
    /\ predRes.op = "predict"
    /\ predRes.enh
    /\ predRes.data # NoTable
    /\ \/ predRes.b.shape = "sequence" /\ predRes.b.seq.raise
       \/ predRes.b.shape = "lstm"
            /\ (predRes.b.seq.raise \/ ~SequenceColumnsPresent(predRes.data))

\* C26: when something raises inside the enhanced prediction path, predict
\* answers with exactly the list the standard path gives for the same model,
\* data and days, and does not raise; an artifact that is neither
\* sequence-capable nor recurrent gets the standard list as well
C26_EnhancedFailureGivesTheStandardList ==
    /\ EnhancedPathRaised =>
          /\ predRes.outcome = "ok"
          /\ predRes.predictions =
                GenerateStandardPredictions(predRes.b.outs, predRes.data, predRes.days)
    /\ (predRes.op = "predict" /\ predRes.enh /\ predRes.data # NoTable
          /\ predRes.b.shape = "plain") =>
          /\ predRes.outcome = "ok"
          /\ predRes.predictions =
                GenerateStandardPredictions(predRes.b.outs, predRes.data, predRes.days)

\* the sequence call of a sequence-capable artifact raised and the standard
\* path, with a day of its own failing, answered in its place
C26_Witness ==
    /\ EnhancedPathRaised
    /\ predRes.b.shape = "sequence"
    /\ predRes.days = MaxDays
    /\ predRes.predictions # <<>>
    /\ \E i \in DOMAIN predRes.predictions : predRes.predictions[i].estimation
    /\ \E i \in DOMAIN predRes.predictions : ~predRes.predictions[i].estimation

\* the new_cases a substituted day is claimed to have at day i: the value of
\* the point before it (the last historical row for the first day) times 1.05
CompoundedEstimate(i) ==
    Round(Estimate(Hundredths(
        IF i = 1
        THEN IF "new_cases" \in predRes.data.cols
             THEN LastRow(predRes.data.rows).new_cases ELSE 0
        ELSE predRes.predictions[i - 1].new_cases)))

\* the forecast came from the day by day loop of the standard path
StandardPathAnswered ==
    /\ predRes.op = "predict"
    /\ predRes.outcome = "ok"
    /\ predRes.path \in {"standard", "fallback"}

\* C27: on the standard path a failing day's new_cases is 1.05 times the value
\* of the point immediately before it (the last historical row for the first
\* day), also when that point was itself substituted, and the running
\* total_cases grows by the substituted value
C27_FailingDaysCompound ==
    StandardPathAnswered =>
        \A i \in DOMAIN predRes.predictions :
            predRes.predictions[i].estimation =>
                /\ predRes.predictions[i].new_cases = CompoundedEstimate(i)
                /\ LET prev == IF i = 1
                               THEN IF "total_cases" \in predRes.data.cols
                                    THEN LastRow(predRes.data.rows).total_cases ELSE 0
                               ELSE predRes.predictions[i - 1].total_cases
                       d == predRes.predictions[i].total_cases
                                - (prev + predRes.predictions[i].new_cases)
                   IN  d \in {-1, 0, 1}

\* C28: after construction and any register_adapter calls the adapters are in
\* non-increasing order of priority, every registered adapter is there exactly
\* once, adapters of equal priority stand in registration order, and the
\* built-in enhanced adapter precedes the built-in raw one
C28_AdaptersSortedStablyByPriority ==
    /\ \A i, j \in DOMAIN adapters :
          i < j =>
             /\ adapters[i].priority >= adapters[j].priority
             /\ adapters[i].priority = adapters[j].priority =>
                   adapters[i].id < adapters[j].id
    /\ {adapters[i].id : i \in DOMAIN adapters} = 1..Len(adapters)
    /\ \A n \in 1..Len(adapters) :
          Cardinality({i \in DOMAIN adapters : adapters[i].id = n}) = 1
    /\ \E i, j \in DOMAIN adapters :
          /\ i < j
          /\ adapters[i].name = "enhanced_data" /\ adapters[i].priority = EnhancedPriority
          /\ adapters[j].name = "raw_data" /\ adapters[j].priority = RawPriority

\* an adapter registered with the priority of the built-in raw one stands
\* right after it
C28_Witness ==
    /\ Len(adapters) = MaxAdapters
    /\ \E i \in DOMAIN adapters :
          /\ i > 1
          /\ adapters[i].name = "custom"
          /\ adapters[i - 1].name = "raw_data"
          /\ adapters[i].priority = RawPriority

\* the kind a get_model(c, k) call ends at: k when it is cached or registered,
\* else its first registered alternative, else "default", else none
SelectedKind(cache, c, k) ==
    IF IsLoaded(cache, c, k) \/ HasModel(registry, c, k) THEN k
    ELSE ExpectedKind(c, k)

\* the recursion of the last get_model call: at most one level, entered only
\* for a registered kind, and at most one file read
RecursionBounded ==
    /\ regRes.depth \in {0, 1}
    /\ Len(regRes.loads) <= 1
    /\ regRes.depth = 1 =>
          /\ ~HasModel(registry, regRes.c, regRes.k)
          /\ HasModel(registry, regRes.c, ExpectedKind(regRes.c, regRes.k))

\* C29 (as stated): get_model ends for every registry, cache and kind after at
\* most one level of recursion, entered only for a registered kind, and whether
\* it returns or raises is fixed by (registry, cache, country, kind) alone: it
\* returns exactly when some kind is selected
C29_OutcomeFixedByRegistryAndCache ==
    regRes.op = "get_model" =>
        /\ RecursionBounded
        /\ regRes.outcome =
              IF SelectedKind(regRes.before, regRes.c, regRes.k) = NoneArg
              THEN "ModelNotFoundError" ELSE "ok"

\* C29 (amended): the same, the outcome being fixed by (registry, cache,
\* country, kind) together with whether the one selected artifact, when it is
\* not cached, can be loaded
C29_OutcomeFixedGivenTheLoad ==
    regRes.op = "get_model" =>
        LET sel == SelectedKind(regRes.before, regRes.c, regRes.k)
        IN  /\ RecursionBounded
            /\ regRes.outcome \in {"ok", "ModelNotFoundError"}
            /\ regRes.outcome = "ok" <=>
                  /\ sel # NoneArg
                  /\ IsLoaded(regRes.before, regRes.c, sel) \/ regRes.loadOk
            /\ regRes.outcome = "ok" =>
                  IF IsLoaded(regRes.before, regRes.c, sel)
                  THEN regRes.artifact = regRes.before[regRes.c][sel]
                  ELSE regRes.artifact.path = registry[regRes.c][sel]

\* "xgboost" is asked for where gradient_boosting, whose first alternative is
\* "xgboost" again, is the registered kind: one level of recursion
C29_Witness ==
    /\ regRes.op = "get_model"
    /\ regRes.k = "xgboost"
    /\ ~HasModel(registry, regRes.c, "xgboost")
    /\ HasModel(registry, regRes.c, "gradient_boosting")
    /\ regRes.depth = 1
    /\ regRes.outcome = "ok"
    /\ regRes.artifact.path = registry[regRes.c]["gradient_boosting"]

\* C30: a get_model call that raises ModelNotFoundError leaves the cache as it
\* found it; one that returns adds at most one entry and replaces none; and no
\* get_model, has_model or get_model_metrics call changes the registry or the
\* metadata
C30_FailedCallLeavesCacheAlone ==
    /\ [](regRes.op = "get_model" =>
            /\ regRes.outcome = "ModelNotFoundError" => loaded_models = regRes.before
            /\ regRes.outcome = "ok" =>
                  /\ Cardinality(CachedKeys(loaded_models)
                                    \ CachedKeys(regRes.before)) <= 1
                  /\ \A p \in CachedKeys(regRes.before) :
                        /\ p \in CachedKeys(loaded_models)
                        /\ loaded_models[p[1]][p[2]] = regRes.before[p[1]][p[2]])
    /\ [][regRes'.op \in {"get_model", "has_model", "get_model_metrics"} =>
             (registry' = registry /\ model_metadata' = model_metadata)]_vars

\* loading the selected artifact failed while another artifact was cached
C30_Witness ==
    /\ regRes.op = "get_model"
    /\ regRes.outcome = "ModelNotFoundError"
    /\ regRes.why = "model_loading_error"
    /\ regRes.before # EmptyFn
    /\ loaded_models = regRes.before

====
